---------------------------- MODULE Spec2Model ----------------------------
(***************************************************************************)
(* A model of src/src/web_server.py: the log dashboard of the rsync        *)
(* backup container.  It covers the bounded log reader (safe_read_log),    *)
(* the error summary (_generate_error_summary), the status classifier      *)
(* (get_sync_status) and the POST handler (do_POST: /clear and /run).      *)
(*                                                                         *)
(* Text.  A log line is a record                                           *)
(*     [pre, tok, skip, post, bad]                                         *)
(* standing for the bytes                                                  *)
(*     '#' * pre  ++  tok[skip+1 ..]  ++  '#' * post  ++  bad invalid bytes *)
(* The filler '#' occurs in no keyword and in no marker phrase, so whether *)
(* a phrase occurs in a line is decided by the line's token alone; the     *)
(* token is real text (a sequence of characters) and containment is a real *)
(* substring search.  skip > 0 only in a line whose head was cut off by a  *)
(* byte window.  A file is a sequence of lines, each followed by "\n".     *)
(***************************************************************************)
EXTENDS Integers, Sequences, FiniteSets, TLC

VARIABLES
    syncLog,     \* LOG_FILE: [exists, content]
    serverLog,   \* SERVER_LOG_FILE: [exists, content]
    procs,       \* the processes started by POST /run: a sequence of [pid, alive]
    pc,          \* the position of the request handler
    req,         \* the request being handled
    resp,        \* what the handler has sent: a sequence of responses
    before,      \* the two log files and the processes when the request arrived
    call,        \* the arguments of the function under study
    ret,         \* its result
    budget       \* how many more environment steps the model takes

vars == <<syncLog, serverLog, procs, pc, req, resp, before, call, ret, budget>>

-----------------------------------------------------------------------------
(* Program constants *)

MAX_LOG_SIZE == 524288000

max_errors_to_show == 15

max_summary_chars == 2000

TruncationReserve == 100

SeparatorWidth == 50

StatusReadSize == 1024

StatusLines == 5

MaxRequestBytes == 1024

DefaultMaxLines == 10000

-----------------------------------------------------------------------------
(* Bounds of the model *)

\* The longest run of equal lines in an input of the summary.
MaxRun == 31

\* The length of a long log line: 15 of them overflow the summary.
LongLen == 150

\* The length of a line that overflows the summary on its own.
HugeLen == 2500

\* The length of a wide log line: three of them exceed the status window.
WideLen == 400

\* The longest run of equal lines in an input of the status classifier.
MaxTail == 6

\* By how much the largest line falls short of MAX_LOG_SIZE.
BigSlack == 30

\* How many requests the clients send in one behaviour.
MaxRequests == 1

\* How many lines the sync job and the started processes write in one behaviour.
MaxAppends == 1

\* The declared length of a small request body.
SmallLength == 20

\* The number of lines the sync job writes after the line of its start.
MaxFollow == 6

-----------------------------------------------------------------------------
(* Characters and tokens *)

LowerSeq == <<"a","b","c","d","e","f","g","h","i","j","k","l","m",
              "n","o","p","q","r","s","t","u","v","w","x","y","z">>

UpperSeq == <<"A","B","C","D","E","F","G","H","I","J","K","L","M",
              "N","O","P","Q","R","S","T","U","V","W","X","Y","Z">>

\* A mutant of UpperChar: upper() that leaves every character as it is.
UpperCharIdentity(c) == c

\* str.upper() on one character.
UpperChar(c) ==
    IF \E i \in 1..26 : LowerSeq[i] = c
    THEN UpperSeq[CHOOSE i \in 1..26 : LowerSeq[i] = c]
    ELSE c

\* str.upper()
Upper(s) == [i \in 1..Len(s) |-> UpperChar(s[i])]

\* sub in s
Contains(sub, s) ==
    \E i \in 0..(Len(s) - Len(sub)) : SubSeq(s, i + 1, i + Len(sub)) = sub

\* The text of each token a line may carry.
TokChars(t) ==
    CASE t = "" -> <<>>
      [] t = "[ERROR]" -> <<"[", "E", "R", "R", "O", "R", "]">>
      [] t = "[error]" -> <<"[", "e", "r", "r", "o", "r", "]">>
      [] t = "[CRITICAL]" -> <<"[", "C", "R", "I", "T", "I", "C", "A", "L", "]">>
      [] t = "ERROR:" -> <<"E", "R", "R", "O", "R", ":">>
      [] t = "error:" -> <<"e", "r", "r", "o", "r", ":">>
      [] t = "Error:" -> <<"E", "r", "r", "o", "r", ":">>
      [] t = "CRITICAL:" -> <<"C", "R", "I", "T", "I", "C", "A", "L", ":">>
      [] t = "Failed" -> <<"F", "a", "i", "l", "e", "d">>
      [] t = "failed" -> <<"f", "a", "i", "l", "e", "d">>
      [] t = "Exception:" -> <<"E", "x", "c", "e", "p", "t", "i", "o", "n", ":">>
      [] t = "Traceback" -> <<"T", "r", "a", "c", "e", "b", "a", "c", "k">>
      [] t = "ERROR" -> <<"E", "R", "R", "O", "R">>
      [] t = "[INFO]" -> <<"[", "I", "N", "F", "O", "]">>
      [] t = "Fail" -> <<"F", "a", "i", "l">>
      [] t = "All syncs completed successfully" ->
            <<"A", "l", "l", " ", "s", "y", "n", "c", "s", " ", "c", "o", "m",
              "p", "l", "e", "t", "e", "d", " ", "s", "u", "c", "c", "e", "s",
              "s", "f", "u", "l", "l", "y">>
      [] t = "all syncs completed successfully" ->
            <<"a", "l", "l", " ", "s", "y", "n", "c", "s", " ", "c", "o", "m",
              "p", "l", "e", "t", "e", "d", " ", "s", "u", "c", "c", "e", "s",
              "s", "f", "u", "l", "l", "y">>
      [] t = "Some syncs failed. Check logs for details." ->
            <<"S", "o", "m", "e", " ", "s", "y", "n", "c", "s", " ", "f", "a",
              "i", "l", "e", "d", ".", " ", "C", "h", "e", "c", "k", " ", "l",
              "o", "g", "s", " ", "f", "o", "r", " ", "d", "e", "t", "a", "i",
              "l", "s", ".">>
      [] t = "Starting sync process." ->
            <<"S", "t", "a", "r", "t", "i", "n", "g", " ", "s", "y", "n", "c",
              " ", "p", "r", "o", "c", "e", "s", "s", ".">>
      [] t = "Starting sync process" ->
            <<"S", "t", "a", "r", "t", "i", "n", "g", " ", "s", "y", "n", "c",
              " ", "p", "r", "o", "c", "e", "s", "s">>
      [] t = "Logs cleared via web interface" ->
            <<"L", "o", "g", "s", " ", "c", "l", "e", "a", "r", "e", "d", " ",
              "v", "i", "a", " ", "w", "e", "b", " ", "i", "n", "t", "e", "r",
              "f", "a", "c", "e">>
      [] t = "Server logs cleared via web interface" ->
            <<"S", "e", "r", "v", "e", "r", " ", "l", "o", "g", "s", " ", "c",
              "l", "e", "a", "r", "e", "d", " ", "v", "i", "a", " ", "w", "e",
              "b", " ", "i", "n", "t", "e", "r", "f", "a", "c", "e">>

Tokens ==
    {"", "[ERROR]", "[error]", "[CRITICAL]", "ERROR:", "error:", "Error:",
     "CRITICAL:", "Failed", "failed", "Exception:", "Traceback", "ERROR",
     "[INFO]", "Fail", "All syncs completed successfully",
     "all syncs completed successfully",
     "Some syncs failed. Check logs for details.", "Starting sync process.",
     "Starting sync process", "Logs cleared via web interface",
     "Server logs cleared via web interface"}

\* error_keywords of _generate_error_summary, as written in the source.
error_keywords ==
    << <<"[", "E", "R", "R", "O", "R", "]">>,
       <<"[", "C", "R", "I", "T", "I", "C", "A", "L", "]">>,
       <<"E", "R", "R", "O", "R", ":">>,
       <<"C", "R", "I", "T", "I", "C", "A", "L", ":">>,
       <<"F", "a", "i", "l", "e", "d">>,
       <<"E", "x", "c", "e", "p", "t", "i", "o", "n", ":">>,
       <<"T", "r", "a", "c", "e", "b", "a", "c", "k">>,
       <<"E", "r", "r", "o", "r", ":">> >>

-----------------------------------------------------------------------------
(* Lines *)

Line(p, t, q) == [pre |-> p, tok |-> t, skip |-> 0, post |-> q, bad |-> 0]

BlankLine == Line(0, "", 0)

\* The characters of the token that are left in the line.
TokText(l) == SubSeq(TokChars(l.tok), l.skip + 1, Len(TokChars(l.tok)))

\* len(line) of the decoded line.
CharLen(l) == l.pre + Len(TokText(l)) + l.post

\* The bytes of the line in the file, without its "\n".
ByteLen(l) == CharLen(l) + l.bad

\* bytes.decode('utf-8', errors='ignore') on one line: invalid bytes vanish.
DecodeIgnore(l) == [l EXCEPT !.bad = 0]

\* The line without its first k bytes.
CutFront(l, k) ==
    LET tl == Len(TokText(l)) IN
    IF k <= l.pre THEN [l EXCEPT !.pre = l.pre - k]
    ELSE IF k < l.pre + tl THEN [l EXCEPT !.pre = 0, !.skip = l.skip + (k - l.pre)]
    ELSE IF k <= l.pre + tl + l.post
         THEN [pre |-> 0, tok |-> "", skip |-> 0,
               post |-> l.post - (k - l.pre - tl), bad |-> l.bad]
    ELSE [pre |-> 0, tok |-> "", skip |-> 0, post |-> 0,
          bad |-> l.bad - (k - l.pre - tl - l.post)]

RECURSIVE Rep(_, _)
\* [l] * n
Rep(l, n) == IF n <= 0 THEN <<>> ELSE <<l>> \o Rep(l, n - 1)

RECURSIVE FileSize(_)
\* os.path.getsize / f.tell() at the end: every line and its "\n".
FileSize(content) ==
    IF content = <<>> THEN 0
    ELSE ByteLen(Head(content)) + 1 + FileSize(Tail(content))

-----------------------------------------------------------------------------
(* Strings built by the program: a text is a sequence of pieces, each with *)
(* its length in characters.  A piece cut by a slice keeps its kind, has   *)
(* the length that is left and is marked not whole.                        *)

Piece(t, n, num, l, f) ==
    [t |-> t, n |-> n, num |-> num, line |-> l, flag |-> f, whole |-> TRUE]

RECURSIVE TextLen(_)
\* len(text)
TextLen(text) ==
    IF text = <<>> THEN 0 ELSE Head(text).n + TextLen(Tail(text))

RECURSIVE Slice(_, _)
\* text[:k]
Slice(text, k) ==
    IF text = <<>> \/ k <= 0 THEN <<>>
    ELSE IF Head(text).n <= k
         THEN <<Head(text)>> \o Slice(Tail(text), k - Head(text).n)
         ELSE << [Head(text) EXCEPT !.n = k, !.whole = FALSE] >>

RECURSIVE Digits(_)
\* The number of decimal digits of n >= 0.
Digits(n) == IF n < 10 THEN 1 ELSE 1 + Digits(n \div 10)

\* len(str(n))
NumLen(n) == IF n < 0 THEN 1 + Digits(-n) ELSE Digits(n)

\* "\n"
NL == Piece("nl", 1, 0, BlankLine, FALSE)

\* '=' * 50 followed by "\n"
SepLine == Piece("sep", SeparatorWidth + 1, 0, BlankLine, FALSE)

-----------------------------------------------------------------------------
(* _generate_error_summary *)

\* any(keyword.upper() in line_upper for keyword in error_keywords)
MatchesKeyword(chars) ==
    \E k \in 1..Len(error_keywords) :
        Contains(Upper(error_keywords[k]), Upper(chars))

\* The outcome of the match for every token and every cut of it.
ErrTable ==
    [t \in Tokens |->
        [s \in 0..Len(TokChars(t)) |->
            MatchesKeyword(SubSeq(TokChars(t), s + 1, Len(TokChars(t))))]]

\* Whether the loop of _generate_error_summary flags the line.
IsErrorLine(l) == ErrTable[l.tok][l.skip]

\* A mutant of SearchCap: the search stops at the display limit.
SearchCapAtDisplay == max_errors_to_show

\* A mutant of SearchCap: the search never stops early.
SearchCapNone == max_errors_to_show * 1000

\* max_errors_to_show * 2: the loop stops collecting at this many matches.
SearchCap == max_errors_to_show * 2

RECURSIVE ScanLines(_, _, _)
\* The for loop: the errors list after the lines from position idx on,
\* line idx numbered idx + offset.
ScanLines(lines, i, errors) ==
    IF lines = <<>> \/ Len(errors) >= SearchCap THEN errors
    ELSE ScanLines(Tail(lines), i + 1,
                   IF IsErrorLine(Head(lines))
                   THEN Append(errors, [num |-> i, line |-> Head(lines)])
                   ELSE errors)

\* errors after the loop.
CollectErrors(lines, offset) == ScanLines(lines, 1 + offset, <<>>)

\* f'Line {i}: {line}'
ErrorEntry(e) == Piece("entry", 5 + NumLen(e.num) + 2 + CharLen(e.line), e.num, e.line, FALSE)

RECURSIVE JoinEntries(_)
\* '\n'.join(displayed_errors)
JoinEntries(es) ==
    IF es = <<>> THEN <<>>
    ELSE IF Len(es) = 1 THEN <<ErrorEntry(es[1])>>
    ELSE <<ErrorEntry(es[1]), NL>> \o JoinEntries(Tail(es))

\* A mutant of SummaryHeader: the note of a truncated window is never added.
SummaryHeaderPlain(count, truncated) ==
    Piece("hdr", 17 + NumLen(count) + 6 + (IF count # 1 THEN 1 ELSE 0) + 6 + 1,
          count, BlankLine, FALSE)

\* The header line: marker, count, 'error' or 'errors', ' found', the note of a
\* truncated window, "\n".
SummaryHeader(count, truncated) ==
    Piece("hdr",
          17 + NumLen(count) + 6 + (IF count # 1 THEN 1 ELSE 0) + 6
             + (IF truncated THEN 23 ELSE 0) + 1,
          count, BlankLine, truncated)

\* A mutant of MoreErrors: the count of the errors not shown is one too many.
MoreErrorsOffByOne(n) == Piece("more", 42 + NumLen(n + 1), n + 1, BlankLine, FALSE)

\* '\n... and N more errors (see full log below)'
MoreErrors(n) == Piece("more", 42 + NumLen(n), n, BlankLine, FALSE)

\* A mutant of NoErrorsSummary: the early return is missing.
NoErrorsSummaryWithHeader == <<SummaryHeader(0, FALSE), SepLine, NL, SepLine, NL>>

\* The no-errors banner, separator and blank line.
NoErrorsSummary == << Piece("noerr", 33, 0, BlankLine, FALSE), SepLine, NL >>

\* summary_message: the truncation notice, separator and blank line.
SummaryMessage == << Piece("notice", 45, 0, BlankLine, FALSE), SepLine, NL >>

\* summary_content before the final safety check.
AssembledSummary(lines, offset, truncated) ==
    LET errors == CollectErrors(lines, offset)
        shown  == SubSeq(errors, 1,
                         IF Len(errors) < max_errors_to_show
                         THEN Len(errors) ELSE max_errors_to_show)
    IN  <<SummaryHeader(Len(errors), truncated), SepLine>>
        \o JoinEntries(shown)
        \o (IF Len(errors) > max_errors_to_show
            THEN <<MoreErrors(Len(errors) - max_errors_to_show)>> ELSE <<>>)
        \o <<NL, SepLine, NL>>

\* A mutant of TruncationPoint: no room is left for the notice.
TruncationPointNoReserve == max_summary_chars

\* truncation_point
TruncationPoint == max_summary_chars - TruncationReserve

\* The final safety check.
CapSummary(text) ==
    IF TextLen(text) > max_summary_chars
    THEN Slice(text, TruncationPoint) \o SummaryMessage
    ELSE text

\* _generate_error_summary(lines, offset, truncated)
GenerateErrorSummary(lines, offset, truncated) ==
    IF CollectErrors(lines, offset) = <<>> THEN NoErrorsSummary
    ELSE CapSummary(AssembledSummary(lines, offset, truncated))

-----------------------------------------------------------------------------
(* Reading a file *)

\* The outcome of a step: a value, or an exception on its way up.
Return(v) == [kind |-> "return", val |-> v]

Raise(e) == [kind |-> "raise", exc |-> e]

\* The exception classes the model raises, each a subclass of Exception.
ExceptionClasses ==
    {"OSError", "UnicodeDecodeError", "ValueError", "JSONDecodeError",
     "SubprocessError", "MemoryError"}

\* A mutant of LastBytes: the whole file is read.
LastBytesWhole(content, w) == content

RECURSIVE LastBytes(_, _)
\* f.seek(-w, 2); f.read(): the last w bytes of the file as lines, the first
\* of them without the part of it that lies before the window.
LastBytes(content, w) ==
    IF content = <<>> \/ w <= 0 THEN <<>>
    ELSE LET n == Len(content)
             l == content[n]
         IN  IF ByteLen(l) + 1 <= w
             THEN Append(LastBytes(SubSeq(content, 1, n - 1), w - (ByteLen(l) + 1)), l)
             ELSE << CutFront(l, ByteLen(l) - (w - 1)) >>

\* bytes.decode('utf-8', errors='ignore')
DecodeLenient(lines) == [i \in 1..Len(lines) |-> DecodeIgnore(lines[i])]

\* Whether decoding the lines as strict UTF-8 fails.
HasInvalidBytes(lines) == \E i \in 1..Len(lines) : lines[i].bad > 0

\* lines[-m:]
PyTail(lines, m) ==
    LET n     == Len(lines)
        start == IF -m < 0 THEN (IF n - m < 0 THEN 0 ELSE n - m)
                 ELSE (IF -m > n THEN n ELSE -m)
    IN  SubSeq(lines, start + 1, n)

\* '\n'.join(lines): no lines and one empty line give the same text.
JoinLines(lines) == IF lines = <<BlankLine>> THEN <<>> ELSE lines

-----------------------------------------------------------------------------
(* safe_read_log *)

\* The steps of safe_read_log that the environment can make fail.
ReadFaults == {"none", "getsize", "open", "seek", "read"}

NotFoundView == [kind |-> "text", text |-> "Log file not found"]

\* 'Error reading log file: ' + str(e)
ErrorView(e) == [kind |-> "error", text |-> "Error reading log file: ", desc |-> e]

View(summary, banner, n, lines) ==
    [kind |-> "view", summary |-> summary, banner |-> banner, num |-> n,
     body |-> JoinLines(lines)]

\* A mutant of SummarisedLines: the summary is taken over the displayed tail.
SummarisedTail(lines, max_lines) == PyTail(lines, max_lines)

\* The lines the normal path hands to _generate_error_summary.
SummarisedLines(lines, max_lines) == lines

\* The branch for a file larger than MAX_LOG_SIZE.
ReadOversize(f, fault) ==
    IF fault = "open" \/ fault = "seek" \/ fault = "read" THEN Raise("OSError")
    ELSE LET lines == DecodeLenient(LastBytes(f.content, MAX_LOG_SIZE))
         IN  Return(View(GenerateErrorSummary(lines, 0, TRUE),
                         "bytes", MAX_LOG_SIZE, lines))

\* The branch for a file of at most MAX_LOG_SIZE bytes.
ReadNormal(f, max_lines, fault) ==
    IF fault = "open" \/ fault = "read" THEN Raise("OSError")
    ELSE IF HasInvalidBytes(f.content) THEN Raise("UnicodeDecodeError")
    ELSE LET lines == f.content
         IN  IF Len(lines) > max_lines
             THEN Return(View(GenerateErrorSummary(
                                  SummarisedLines(lines, max_lines), 0, FALSE),
                              "lines", max_lines, PyTail(lines, max_lines)))
             ELSE Return(View(GenerateErrorSummary(lines, 0, FALSE),
                              "none", 0, lines))

\* The body of the try block.
ReadBody(f, max_lines, fault) ==
    IF ~f.exists THEN Return(NotFoundView)
    ELSE IF fault = "getsize" THEN Raise("OSError")
    ELSE IF FileSize(f.content) > MAX_LOG_SIZE THEN ReadOversize(f, fault)
    ELSE ReadNormal(f, max_lines, fault)

\* A mutant of ReadCatches: the handler catches OSError only.
ReadCatchesOSError(e) == e = "OSError"

\* except Exception
ReadCatches(e) == e \in ExceptionClasses

\* safe_read_log(log_path, max_lines) on file f, with the step `fault` failing.
SafeReadLog(f, max_lines, fault) ==
    LET r == ReadBody(f, max_lines, fault)
    IN  IF r.kind = "raise" /\ ReadCatches(r.exc) THEN Return(ErrorView(r.exc))
        ELSE r

-----------------------------------------------------------------------------
(* get_sync_status *)

StatusFaults == {"none", "open", "seek", "read"}

Unknown == [label |-> "Unknown", color |-> "#7d8590"]

NoLogs == [label |-> "No logs", color |-> "#7d8590"]

Completed == [label |-> "Completed", color |-> "#3fb950"]

CompletedWithErrors == [label |-> "Completed with errors", color |-> "#d29922"]

Running == [label |-> "Running", color |-> "#79c0ff"]

NoRunYet == [label |-> "No run yet", color |-> "#7d8590"]

StatusError == [label |-> "Error", color |-> "#f85149"]

NoMarker == [label |-> "none", color |-> "none"]

\* The if/elif chain of the loop on a text.
ClassifyChars(chars) ==
    IF Contains(TokChars("All syncs completed successfully"), chars) THEN Completed
    ELSE IF Contains(TokChars("Some syncs failed. Check logs for details."), chars)
         THEN CompletedWithErrors
    ELSE IF Contains(TokChars("Starting sync process."), chars) THEN Running
    ELSE IF Contains(TokChars("Logs cleared via web interface"), chars) THEN NoRunYet
    ELSE NoMarker

\* Its outcome for every token and every cut of it.
MarkTable ==
    [t \in Tokens |->
        [s \in 0..Len(TokChars(t)) |->
            ClassifyChars(SubSeq(TokChars(t), s + 1, Len(TokChars(t))))]]

\* The if/elif chain on a line.
ClassifyLine(l) == MarkTable[l.tok][l.skip]

RECURSIVE DropLeadingBlank(_)
DropLeadingBlank(lines) ==
    IF lines = <<>> THEN <<>>
    ELSE IF CharLen(Head(lines)) = 0 THEN DropLeadingBlank(Tail(lines))
    ELSE lines

RECURSIVE DropTrailingBlank(_)
DropTrailingBlank(lines) ==
    IF lines = <<>> THEN <<>>
    ELSE IF CharLen(lines[Len(lines)]) = 0
         THEN DropTrailingBlank(SubSeq(lines, 1, Len(lines) - 1))
    ELSE lines

\* content.strip().split('\n'): the blank lines at both ends go, those in
\* between stay; an empty content gives one empty line.
StripSplit(lines) ==
    LET kept == DropTrailingBlank(DropLeadingBlank(lines))
    IN  IF kept = <<>> THEN <<BlankLine>> ELSE kept

\* A mutant of LastLines: every line of the window is scanned.
LastLinesAll(lines) == lines

\* [-5:]
LastLines(lines) == PyTail(lines, StatusLines)

\* A mutant of StatusWindow: the whole file is read.
StatusWindowWholeFile(content) == content

\* f.seek(-read_size, 2); f.read(): the last min(1024, file_size) bytes.
StatusWindow(content) ==
    LET size      == FileSize(content)
        read_size == IF size < StatusReadSize THEN size ELSE StatusReadSize
    IN  LastBytes(content, read_size)

RECURSIVE ScanReversedOldestFirst(_)
\* A mutant of ScanReversed: the lines are scanned oldest first.
ScanReversedOldestFirst(lines) ==
    IF lines = <<>> THEN Running
    ELSE IF ClassifyLine(Head(lines)) # NoMarker THEN ClassifyLine(Head(lines))
    ELSE ScanReversedOldestFirst(Tail(lines))

RECURSIVE ScanReversedUnknown(_)
\* A mutant of ScanReversed: with no marker in the lines the state is Unknown.
ScanReversedUnknown(lines) ==
    IF lines = <<>> THEN Unknown
    ELSE IF ClassifyLine(lines[Len(lines)]) # NoMarker
         THEN ClassifyLine(lines[Len(lines)])
    ELSE ScanReversedUnknown(SubSeq(lines, 1, Len(lines) - 1))

RECURSIVE ScanReversed(_)
\* for line in reversed(lines): the first marker found decides; none: Running.
ScanReversed(lines) ==
    IF lines = <<>> THEN Running
    ELSE IF ClassifyLine(lines[Len(lines)]) # NoMarker
         THEN ClassifyLine(lines[Len(lines)])
    ELSE ScanReversed(SubSeq(lines, 1, Len(lines) - 1))

\* The body of the try block.
StatusBody(f, fault) ==
    IF ~f.exists THEN Return(Unknown)
    ELSE IF fault = "open" \/ fault = "seek" THEN Raise("OSError")
    ELSE IF FileSize(f.content) = 0 THEN Return(NoLogs)
    ELSE IF fault = "read" THEN Raise("OSError")
    ELSE Return(ScanReversed(LastLines(StripSplit(
                    DecodeLenient(StatusWindow(f.content))))))

\* A mutant of StatusCatches: the except clause catches nothing.
StatusCatchesNothing(e) == FALSE

\* except Exception
StatusCatches(e) == e \in ExceptionClasses

\* get_sync_status() on file f, with the step `fault` failing.
GetSyncStatus(f, fault) ==
    LET r == StatusBody(f, fault)
    IN  IF r.kind = "raise" /\ StatusCatches(r.exc) THEN Return(StatusError)
        ELSE r

-----------------------------------------------------------------------------
(* The functions under study, applied to bounded inputs *)

NoFile == [exists |-> FALSE, content |-> <<>>]

File(c) == [exists |-> TRUE, content |-> c]

NotCalled == [kind |-> "none"]

NoCall == [fn |-> "none"]

NoRequest == [path |-> "none", method |-> "none"]

\* The server at rest: no request, nothing started.
ServerIdle ==
    /\ serverLog = NoFile
    /\ procs = <<>>
    /\ pc = "idle"
    /\ req = NoRequest
    /\ resp = <<>>
    /\ before = NoCall
    /\ budget = [requests |-> 0, appends |-> 0]

\* Log lines of the inputs.
PlainLine == Line(0, "", 10)

ErrorLine == Line(22, "[ERROR]", 10)

LongErrorLine == Line(0, "error:", LongLen)

HugeErrorLine == Line(0, "Traceback", HugeLen)

NearMissLine == Line(5, "ERROR", 5)

WideLine == Line(0, "", WideLen)

InvalidBytesLine == [Line(3, "Failed", 4) EXCEPT !.bad = 2]

\* The lines the sync job writes at the start and at the end of a run, and
\* the line POST /clear writes: a 29-character '[timestamp] [INFO] ' prefix.
StartingLine == Line(29, "Starting sync process.", 0)

CompletedLine == Line(29, "All syncs completed successfully", 0)

FailedLine == Line(29, "Some syncs failed. Check logs for details.", 0)

ClearedLine == Line(29, "Logs cleared via web interface", 0)

NearStartingLine == Line(29, "Starting sync process", 2)

SumCounts ==
    {0, 1, max_errors_to_show - 1, max_errors_to_show, max_errors_to_show + 1,
     2 * max_errors_to_show - 1, 2 * max_errors_to_show,
     2 * max_errors_to_show + 1, MaxRun}

SumLines == {PlainLine, ErrorLine, LongErrorLine, HugeErrorLine, NearMissLine}

SumOffsets == {-3, 0, 9, 99999}

InitSummary ==
    /\ syncLog = NoFile
    /\ ServerIdle
    /\ \E a \in SumCounts, b \in SumCounts, la \in SumLines, lb \in SumLines,
          offset \in SumOffsets, truncated \in BOOLEAN :
            call = [fn |-> "summary", lines |-> Rep(la, a) \o Rep(lb, b),
                    offset |-> offset, truncated |-> truncated]
    /\ ret = NotCalled

ApplySummary ==
    /\ call.fn = "summary"
    /\ ret = NotCalled
    /\ ret' = Return(GenerateErrorSummary(call.lines, call.offset, call.truncated))
    /\ UNCHANGED <<syncLog, serverLog, procs, pc, req, resp, before, call, budget>>

NextSummary == ApplySummary

SpecSummary == InitSummary /\ [][NextSummary]_vars

\* Every token, whole and with its head cut off, between fillers, and a
\* second line.
InitFlag ==
    /\ syncLog = NoFile
    /\ ServerIdle
    /\ \E t \in Tokens, p \in {0, 2}, q \in {0, 1},
          l2 \in {PlainLine, ErrorLine} :
        \E s \in 0..Len(TokChars(t)) :
            /\ s > 0 => p = 0
            /\ call = [fn |-> "summary",
                       lines |-> << [pre |-> p, tok |-> t, skip |-> s,
                                     post |-> q, bad |-> 0], l2 >>,
                       offset |-> 0, truncated |-> FALSE]
    /\ ret = NotCalled

SpecFlag == InitFlag /\ [][NextSummary]_vars

ReadCounts == {0, 1, 2, MaxRun}

ReadLines == {PlainLine, ErrorLine, InvalidBytesLine, BlankLine}

\* A line that fills MAX_LOG_SIZE bytes with its "\n", and a shorter one.
BigLines == {Line(0, "", MAX_LOG_SIZE - 1), Line(0, "", MAX_LOG_SIZE - BigSlack)}

ReadMaxLines == {0, 2, MaxRun, DefaultMaxLines}

InitRead ==
    /\ ServerIdle
    /\ \/ syncLog = NoFile
       \/ \E a \in ReadCounts, b \in ReadCounts, la \in ReadLines, lb \in ReadLines,
             big \in {<<>>} \cup {<<l>> : l \in BigLines} :
               syncLog = File(Rep(la, a) \o big \o Rep(lb, b))
    /\ \E m \in ReadMaxLines, fault \in ReadFaults :
            call = [fn |-> "read", max_lines |-> m, fault |-> fault]
    /\ ret = NotCalled

ApplyRead ==
    /\ call.fn = "read"
    /\ ret = NotCalled
    /\ ret' = SafeReadLog(syncLog, call.max_lines, call.fault)
    /\ UNCHANGED <<syncLog, serverLog, procs, pc, req, resp, before, call, budget>>

NextRead == ApplyRead

SpecRead == InitRead /\ [][NextRead]_vars

StatusCounts == {0, 1, StatusLines - 1, StatusLines, MaxTail}

MarkerLines ==
    {StartingLine, CompletedLine, FailedLine, ClearedLine, NearStartingLine}

InitStatus ==
    /\ ServerIdle
    /\ \/ syncLog = NoFile
       \/ \E m1 \in {<<>>} \cup {<<l>> : l \in MarkerLines},
             m2 \in {<<>>} \cup {<<l>> : l \in MarkerLines},
             a \in StatusCounts, b \in StatusCounts,
             la \in {BlankLine, PlainLine},
             lb \in {BlankLine, PlainLine, WideLine} :
               syncLog = File(m1 \o Rep(la, a) \o m2 \o Rep(lb, b))
    /\ \E fault \in StatusFaults : call = [fn |-> "status", fault |-> fault]
    /\ ret = NotCalled

ApplyStatus ==
    /\ call.fn = "status"
    /\ ret = NotCalled
    /\ ret' = GetSyncStatus(syncLog, call.fault)
    /\ UNCHANGED <<syncLog, serverLog, procs, pc, req, resp, before, call, budget>>

NextStatus == ApplyStatus

SpecStatus == InitStatus /\ [][NextStatus]_vars

-----------------------------------------------------------------------------
(* do_POST.  The server (socketserver.TCPServer) handles one request at a   *)
(* time; the sync job and the processes POST /run started run beside it.    *)

\* A line of the server's own log: written by the logger, or by POST /clear.
LogRecord(level, msg, code) ==
    [src |-> "logger", level |-> level, msg |-> msg, code |-> code]

ServerClearedLine ==
    [src |-> "clear", level |-> "INFO",
     msg |-> "Server logs cleared via web interface", code |-> 0]

StartupLine == LogRecord("INFO", "Enhanced web server running on port", 0)

LogLineDropped(sl, level, msg, code) == sl

\* logger.<level>(msg): the file handler appends one line to the log it holds
\* open; nothing shows under the path of a log that was removed.
LogLine(sl, level, msg, code) ==
    IF sl.exists
    THEN File(Append(sl.content, LogRecord(level, msg, code)))
    ELSE sl

\* A mutant of OpenReading: the file is opened for writing and reading.
OpenReadingTruncates(f) == IF f.exists THEN File(<<>>) ELSE f

\* open(log_path, 'r') and open(log_path, 'rb'): the file is left as it is.
OpenReading(f) == f

\* One call of safe_read_log(LOG_FILE, max_lines) with its effects: the file
\* is opened for reading, and a failure is logged to the server log.
ReadCall(f, sl, max_lines, fault) ==
    LET r == SafeReadLog(OpenReading(f), max_lines, fault)
    IN  [val  |-> r,
         file |-> IF f.exists /\ fault \notin {"getsize", "open"}
                  THEN OpenReading(f) ELSE f,
         slog |-> IF r.kind = "return" /\ r.val.kind = "error"
                  THEN LogLine(sl, "ERROR", "Error reading log file", 0)
                  ELSE sl]

TwiceCounts == {0, 1, 2}

\* Two calls of safe_read_log in a row on a file nobody else writes to.
InitTwice ==
    /\ \/ syncLog = NoFile
       \/ \E a \in TwiceCounts, b \in TwiceCounts, la \in ReadLines,
             lb \in ReadLines, big \in {<<>>} \cup {<<l>> : l \in BigLines} :
               syncLog = File(Rep(la, a) \o big \o Rep(lb, b))
    /\ serverLog = File(<<StartupLine>>)
    /\ procs = <<>>
    /\ pc = "idle"
    /\ req = NoRequest
    /\ resp = <<>>
    /\ before = [fn |-> "read_twice", syncLog |-> syncLog]
    /\ budget = [requests |-> 0, appends |-> 0]
    /\ \E m \in ReadMaxLines, fault \in ReadFaults :
            call = [fn |-> "read_twice", max_lines |-> m, fault |-> fault]
    /\ ret = [kind |-> "calls", vals |-> <<>>]

ReadAgain ==
    /\ call.fn = "read_twice"
    /\ Len(ret.vals) < 2
    /\ LET c == ReadCall(syncLog, serverLog, call.max_lines, call.fault)
       IN  /\ ret' = [ret EXCEPT !.vals = Append(@, c.val)]
           /\ syncLog' = c.file
           /\ serverLog' = c.slog
    /\ UNCHANGED <<procs, pc, req, resp, before, call, budget>>

NextTwice == ReadAgain

SpecTwice == InitTwice /\ [][NextTwice]_vars

\* The state a handler threads through its statements: the server log, what
\* the client has received, and the exception being propagated.
Handling(sl, out) == [slog |-> sl, out |-> out, exc |-> "none"]

Raised(st, e) == IF st.exc = "none" THEN [st EXCEPT !.exc = e] ELSE st

Logged(st, level, msg, code) ==
    IF st.exc = "none"
    THEN [st EXCEPT !.slog = LogLine(@, level, msg, code)]
    ELSE st

\* Whether a write to the socket succeeds: on a connection the client is
\* closing only the first write does, on a closed one none.
Connections == {"open", "closing", "closed"}

ConnectionCarries(conn, out) ==
    \/ conn = "open"
    \/ conn = "closing" /\ out = <<>>

\* wfile.write(part), raising BrokenPipeError (an OSError) on failure
Written(st, conn, part) ==
    IF st.exc # "none" THEN st
    ELSE IF ConnectionCarries(conn, st.out)
         THEN [st EXCEPT !.out = Append(@, part)]
         ELSE [st EXCEPT !.exc = "OSError"]

\* Headers are pairs <<name, value>>; send_response adds Server and Date.
SecureHeaders ==
    {<<"Content-type", "application/json">>,
     <<"X-Content-Type-Options", "nosniff">>,
     <<"X-Frame-Options", "DENY">>,
     <<"Cache-Control", "no-cache, no-store, must-revalidate">>}

FallbackHeaders ==
    {<<"Content-type", "application/json">>,
     <<"X-Content-Type-Options", "nosniff">>}

HtmlHeaders ==
    {<<"Content-type", "text/html; charset=utf-8">>,
     <<"Cache-Control", "no-cache">>}

ApiHeaders == {<<"Content-type", "application/json">>}

IconHeaders ==
    {<<"Content-type", "image/svg+xml">>,
     <<"Cache-Control", "max-age=86400">>}

ErrorPageHeaders ==
    {<<"Connection", "close">>,
     <<"Content-Type", "text/html;charset=utf-8">>,
     <<"Content-Length", "length of the page">>}

HeadPart(code, headers) ==
    [part |-> "head", code |-> code,
     headers |-> headers \cup {<<"Server", "version">>, <<"Date", "now">>}]

JsonPart(body) == [part |-> "body", type |-> "json", body |-> body]

ErrorPage(code, message) ==
    [part |-> "body", type |-> "html",
     body |-> [code |-> code, message |-> message]]

SuccessBody == [status |-> "success"]

StartedBody(pid) == [status |-> "started", pid |-> pid]

ErrorBody(message) == [status |-> "error", message |-> message]

\* send_response(code), send_header(..)*, end_headers(): the request is
\* logged, then the status line and the headers go out in one write.
SendResponse(st, conn, code, headers) ==
    Written(Logged(st, "INFO", "request", code), conn, HeadPart(code, headers))

\* send_secure_response(status_code)
SendSecureResponse(st, conn, code) == SendResponse(st, conn, code, SecureHeaders)

\* send_error(code, message) of BaseHTTPRequestHandler: logs the error, then
\* sends the head and the HTML error page.
SendError(st, conn, code, message) ==
    Written(SendResponse(Logged(st, "INFO", message, code), conn, code,
                         ErrorPageHeaders),
            conn, ErrorPage(code, message))

\* except Exception of do_POST: the error is logged and a 500 is attempted;
\* whatever the attempt raises is swallowed.
PostCatches(e) == e \in ExceptionClasses

HandleError(st, conn) ==
    IF st.exc = "none" \/ ~PostCatches(st.exc) THEN st
    ELSE LET logged == Logged([st EXCEPT !.exc = "none"], "ERROR",
                              "Error in POST request", 0)
             sent == Written(SendResponse(logged, conn, 500, FallbackHeaders),
                             conn, JsonPart(ErrorBody("Internal server error")))
         IN  [sent EXCEPT !.exc = "none"]

\* The except clauses of POST /run.
RunCatchesStartFailure(e) == e \in {"OSError", "SubprocessError"}

RunFailed(st, conn) ==
    IF st.exc = "none" THEN st
    ELSE LET caught == [st EXCEPT !.exc = "none"]
         IN  IF RunCatchesStartFailure(st.exc)
             THEN Written(SendSecureResponse(
                              Logged(caught, "ERROR",
                                     "Failed to start sync script", 0),
                              conn, 500),
                          conn,
                          JsonPart(ErrorBody("Failed to start sync process")))
             ELSE Written(SendSecureResponse(
                              Logged(caught, "ERROR",
                                     "Unexpected error starting sync", 0),
                              conn, 500),
                          conn, JsonPart(ErrorBody("Internal server error")))

\* A request: its path, its Content-Length header (absent, not a number, or
\* a number), whether Content-Type starts with application/json, what the
\* body is, which step of the handler fails, and the state of the connection.
NoLength == [kind |-> "absent", n |-> 0]

TextLength == [kind |-> "text", n |-> 0]

Length(n) == [kind |-> "int", n |-> n]

Lengths ==
    {NoLength, TextLength, Length(0), Length(SmallLength),
     Length(MaxRequestBytes), Length(MaxRequestBytes + 1)}

ClearFaults == {"sync_open", "sync_write", "server_open", "server_write"}

RunFaults == {"run_open", "spawn_oserror", "spawn_subprocess", "spawn_other"}

TooLargeNever(n) == FALSE

\* int(content_length) > 1024
TooLarge(n) == n > MaxRequestBytes

\* json.loads(body.decode('utf-8')) of the body read, when there is one and
\* the content type is JSON
ParseRequest(r) ==
    IF r.clen.kind = "absent" THEN Return("none")
    ELSE IF r.json /\ r.body # "empty"
         THEN CASE r.body = "badutf8" -> Raise("UnicodeDecodeError")
                [] r.body = "badjson" -> Raise("JSONDecodeError")
                [] OTHER -> Return("data")
         ELSE Return("none")

ParseCatches(e) == e \in {"JSONDecodeError", "UnicodeDecodeError", "ValueError"}

\* Whether do_POST returns before looking at the path.
Rejected(r) ==
    \/ r.clen.kind = "text"
    \/ r.clen.kind = "int" /\ TooLarge(r.clen.n)
    \/ ParseRequest(r).kind = "raise"

\* The steps of GET / that the environment can make fail: the open of
\* safe_read_log, the open of get_sync_status, and the building of the page
\* in generate_html_page (a MemoryError on a large log).
GetFaults == {"get_read", "get_status", "get_page"}

PostPaths == {"/clear", "/run", "/other"}

\* The paths do_GET knows, and /clear as one it does not.
GetPaths == {"/", "/logs", "/api/status", "/favicon.ico", "/clear"}

Requests ==
    { r \in [method : {"POST", "GET"}, path : PostPaths \cup GetPaths,
             clen : Lengths,
             json : BOOLEAN,
             body : {"empty", "json", "badjson", "badutf8"},
             fault : {"none"} \cup ClearFaults \cup RunFaults \cup GetFaults,
             conn : Connections] :
        /\ (r.body = "empty") <=> ~(r.clen.kind = "int" /\ r.clen.n \in 1..MaxRequestBytes)
        /\ r.clen.n # SmallLength => (r.json /\ r.body \in {"empty", "json"})
        /\ r.fault \in ClearFaults => r.path = "/clear"
        /\ r.fault \in RunFaults => r.path = "/run"
        /\ r.fault # "none" => r.clen.kind = "absent"
        /\ r.method = "POST" => (r.path \in PostPaths /\ r.fault \notin GetFaults)
        /\ r.method = "GET" =>
               /\ r.path \in GetPaths
               /\ r.clen = NoLength
               /\ r.fault \in {"none"} \cup GetFaults
               /\ r.fault \in GetFaults => r.path \in {"/", "/logs"} }

\* open(path, 'w') and the write of one line
RewriteAppending(f, line) == File(Append(f.content, line))

Rewrite(f, line) == File(<<line>>)

\* open(path, 'w') alone: the file is emptied
OpenWriting(f) == File(<<>>)

OpenTruncating(f) == File(<<>>)

\* open(path, 'a'): the file is created when it is missing
OpenAppend(f) == IF f.exists THEN f ELSE File(<<>>)

SpawnReturnsAtExit(p) == ~p.alive

\* Popen returns as soon as the child is started.
SpawnReturns(p) == TRUE

SpawnRaises(fault) ==
    CASE fault = "spawn_oserror" -> "OSError"
      [] fault = "spawn_subprocess" -> "SubprocessError"
      [] OTHER -> "ValueError"

Snapshot ==
    [fn |-> "request", syncLog |-> syncLog, serverLog |-> serverLog,
     procs |-> procs, appends |-> budget.appends]

Init ==
    /\ syncLog \in {NoFile, File(<<>>), File(<<StartingLine, ErrorLine>>)}
    /\ serverLog \in {NoFile, File(<<StartupLine>>)}
    /\ procs = <<>>
    /\ pc = "idle"
    /\ req = NoRequest
    /\ resp = <<>>
    /\ before = NoCall
    /\ budget = [requests |-> MaxRequests, appends |-> MaxAppends]
    /\ call = NoCall
    /\ ret = NotCalled

\* The handler goes on to `next` with the server log and the output of st.
Proceed(st, next) ==
    /\ serverLog' = st.slog
    /\ resp' = st.out
    /\ pc' = next

\* A request arrives and do_POST or do_GET is entered; the server goes on
\* serving after a handler that let an exception escape.
Arrive(r) ==
    /\ pc \in {"idle", "done", "escaped"}
    /\ budget.requests > 0
    /\ req' = r
    /\ resp' = <<>>
    /\ before' = Snapshot
    /\ pc' = IF r.method = "GET" THEN "get_route" ELSE "validate"
    /\ budget' = [budget EXCEPT !.requests = @ - 1]
    /\ UNCHANGED <<syncLog, serverLog, procs, call, ret>>

\* The size limit, the body and the routing on the path.
Validate ==
    /\ pc = "validate"
    /\ LET st0 == Handling(serverLog, resp)
           conn == req.conn
           parsed == ParseRequest(req)
       IN  IF req.clen.kind = "text"
           THEN Proceed(HandleError(Raised(st0, "ValueError"), conn), "done")
           ELSE IF req.clen.kind = "int" /\ TooLarge(req.clen.n)
           THEN Proceed(HandleError(
                            SendError(st0, conn, 413, "Request entity too large"),
                            conn), "done")
           ELSE IF parsed.kind = "raise" /\ ParseCatches(parsed.exc)
           THEN Proceed(HandleError(
                            SendError(Logged(st0, "WARNING",
                                             "Invalid request data", 0),
                                      conn, 400, "Invalid request data"),
                            conn), "done")
           ELSE IF req.path = "/clear" THEN Proceed(st0, "clear_sync")
           ELSE IF req.path = "/run" THEN Proceed(st0, "run_spawn")
           ELSE Proceed(HandleError(
                            SendError(st0, conn, 404, "Endpoint not found"),
                            conn), "done")
    /\ UNCHANGED <<syncLog, procs, req, before, budget, call, ret>>

\* POST /clear: the sync log is rewritten if it exists.
ClearSync ==
    /\ pc = "clear_sync"
    /\ LET st0 == Handling(serverLog, resp)
           failed == HandleError(Raised(st0, "OSError"), req.conn)
       IN  IF ~syncLog.exists
           THEN syncLog' = syncLog /\ Proceed(st0, "clear_server")
           ELSE IF req.fault = "sync_open"
           THEN syncLog' = syncLog /\ Proceed(failed, "done")
           ELSE IF req.fault = "sync_write"
           THEN syncLog' = OpenWriting(syncLog) /\ Proceed(failed, "done")
           ELSE /\ syncLog' = Rewrite(syncLog, ClearedLine)
                /\ Proceed(st0, "clear_server")
    /\ UNCHANGED <<procs, req, before, budget, call, ret>>

\* POST /clear: the server log is rewritten if it exists.
ClearServer ==
    /\ pc = "clear_server"
    /\ LET st0 == Handling(serverLog, resp)
       IN  IF ~serverLog.exists
           THEN Proceed(st0, "clear_respond")
           ELSE IF req.fault = "server_open"
           THEN Proceed(HandleError(Raised(st0, "OSError"), req.conn), "done")
           ELSE IF req.fault = "server_write"
           THEN Proceed(HandleError(
                            Raised(Handling(OpenWriting(serverLog), resp),
                                   "OSError"),
                            req.conn), "done")
           ELSE Proceed(Handling(Rewrite(serverLog, ServerClearedLine), resp),
                        "clear_respond")
    /\ UNCHANGED <<syncLog, procs, req, before, budget, call, ret>>

\* POST /clear: the answer.
ClearRespond ==
    /\ pc = "clear_respond"
    /\ LET st0 == Handling(serverLog, resp)
           conn == req.conn
           sent == Written(SendSecureResponse(st0, conn, 200), conn,
                           JsonPart(SuccessBody))
           logged == Logged(sent, "INFO", "Logs cleared via web interface", 0)
       IN  Proceed(HandleError(logged, conn), "done")
    /\ UNCHANGED <<syncLog, procs, req, before, budget, call, ret>>

\* POST /run: the sync log is opened for appending and the script started.
RunSpawn ==
    /\ pc = "run_spawn"
    /\ LET st0 == Handling(serverLog, resp)
           conn == req.conn
           failed(e) == HandleError(RunFailed(Raised(st0, e), conn), conn)
       IN  IF req.fault = "run_open"
           THEN /\ syncLog' = syncLog
                /\ procs' = procs
                /\ Proceed(failed("OSError"), "done")
           ELSE IF req.fault \in RunFaults
           THEN /\ syncLog' = OpenAppend(syncLog)
                /\ procs' = procs
                /\ Proceed(failed(SpawnRaises(req.fault)), "done")
           ELSE /\ syncLog' = OpenAppend(syncLog)
                /\ procs' = Append(procs, [pid |-> Len(procs) + 1,
                                           alive |-> TRUE])
                /\ Proceed(st0, "run_respond")
    /\ UNCHANGED <<req, before, budget, call, ret>>

\* POST /run: the answer, once Popen has returned.
RunRespond ==
    /\ pc = "run_respond"
    /\ SpawnReturns(procs[Len(procs)])
    /\ LET st0 == Handling(serverLog, resp)
           conn == req.conn
           pid == procs[Len(procs)].pid
           sent == Written(SendSecureResponse(st0, conn, 200), conn,
                           JsonPart(StartedBody(pid)))
           logged == Logged(sent, "INFO", "Sync script started", pid)
       IN  Proceed(HandleError(RunFailed(logged, conn), conn), "done")
    /\ UNCHANGED <<syncLog, procs, req, before, budget, call, ret>>

JobLines == {CompletedLine}

\* The scheduled sync job writes a line to the sync log.
JobAppend(l) ==
    /\ budget.appends > 0
    /\ syncLog' = File(Append(syncLog.content, l))
    /\ budget' = [budget EXCEPT !.appends = @ - 1]
    /\ UNCHANGED <<serverLog, procs, pc, req, resp, before, call, ret>>

\* A started process writes a line of output: its stdout is the sync log,
\* opened for appending.
ProcWrite(i) ==
    /\ procs[i].alive
    /\ budget.appends > 0
    /\ syncLog' = File(Append(syncLog.content, PlainLine))
    /\ budget' = [budget EXCEPT !.appends = @ - 1]
    /\ UNCHANGED <<serverLog, procs, pc, req, resp, before, call, ret>>

\* A started process ends.
ProcExit(i) ==
    /\ procs[i].alive
    /\ procs' = [procs EXCEPT ![i].alive = FALSE]
    /\ UNCHANGED <<syncLog, serverLog, pc, req, resp, before, budget, call, ret>>

MiB == 1048576

\* round(os.path.getsize(LOG_FILE) / (1024 * 1024), 2) if the file exists,
\* else 0; in hundredths of a MiB.
LogSize(f) ==
    IF f.exists THEN (FileSize(f.content) * 100 + MiB \div 2) \div MiB ELSE 0

\* The JSON object of GET /api/status.
ApiStatus(f) ==
    [timestamp |-> "now", log_exists |-> f.exists, log_size |-> LogSize(f),
     server_uptime |-> "online"]

IconPart == [part |-> "body", type |-> "svg", body |-> "svg_favicon"]

\* sync_log if sync_log.strip() else 'No sync logs yet...'
ShownLog(view) ==
    IF view.kind = "view" /\ view.summary = <<>> /\ view.banner = "none"
       /\ \A i \in 1..Len(view.body) : view.body[i] = BlankLine
    THEN [kind |-> "text", text |-> "No sync logs yet..."]
    ELSE view

\* generate_html_page(sync_log, load_avg), encoded
PagePart(view, status, f) ==
    [part |-> "body", type |-> "html",
     body |-> [sync_log |-> ShownLog(view), sync_status |-> status,
               log_size |-> LogSize(f)]]

\* except Exception of do_GET: the error is logged and send_error(500) is
\* called; what send_error raises leaves the handler.
GetCatches(e) == e \in ExceptionClasses

GetFailed(st, conn) ==
    IF st.exc = "none" \/ ~GetCatches(st.exc) THEN st
    ELSE SendError(Logged([st EXCEPT !.exc = "none"], "ERROR",
                          "Error in GET request", 0),
                   conn, 500, "Internal server error")

\* do_GET returns, or an exception leaves it.
Finish(st) == Proceed(st, IF st.exc = "none" THEN "done" ELSE "escaped")

\* do_GET: the routing on the path; the head of the page, and the whole
\* answer of the other paths.
GetRoute ==
    /\ pc = "get_route"
    /\ LET st0 == Handling(serverLog, resp)
           conn == req.conn
       IN  IF req.path \in {"/", "/logs"}
           THEN LET sent == SendResponse(st0, conn, 200, HtmlHeaders)
                IN  IF sent.exc = "none" THEN Proceed(sent, "get_read")
                    ELSE Finish(GetFailed(sent, conn))
           ELSE IF req.path = "/api/status"
           THEN Finish(GetFailed(
                           Written(SendResponse(st0, conn, 200, ApiHeaders),
                                   conn, JsonPart(ApiStatus(syncLog))),
                           conn))
           ELSE IF req.path = "/favicon.ico"
           THEN Finish(GetFailed(
                           Written(SendResponse(st0, conn, 200, IconHeaders),
                                   conn, IconPart),
                           conn))
           ELSE Finish(GetFailed(SendError(st0, conn, 404, "Not found"), conn))
    /\ UNCHANGED <<syncLog, procs, req, before, budget, call, ret>>

\* GET /: sync_log = self.safe_read_log(LOG_FILE)
GetRead ==
    /\ pc = "get_read"
    /\ LET c == ReadCall(syncLog, serverLog, DefaultMaxLines,
                         IF req.fault = "get_read" THEN "open" ELSE "none")
       IN  /\ syncLog' = c.file
           /\ IF c.val.kind = "return"
              THEN ret' = c.val /\ Proceed(Handling(c.slog, resp), "get_page")
              ELSE /\ ret' = NotCalled
                   /\ Finish(GetFailed(Raised(Handling(c.slog, resp), c.val.exc),
                                       req.conn))
    /\ UNCHANGED <<procs, req, before, budget, call>>

\* GET /: generate_html_page, which calls get_sync_status, and the write of
\* the page.
GetPage ==
    /\ pc = "get_page"
    /\ LET conn == req.conn
           r == GetSyncStatus(syncLog, IF req.fault = "get_status" THEN "open"
                                       ELSE "none")
           st0 == Handling(IF r.kind = "return" /\ r.val = StatusError
                           THEN LogLine(serverLog, "ERROR",
                                        "Error checking sync status", 0)
                           ELSE serverLog,
                           resp)
       IN  IF r.kind = "raise"
           THEN Finish(GetFailed(Raised(st0, r.exc), conn))
           ELSE IF req.fault = "get_page"
           THEN Finish(GetFailed(Raised(st0, "MemoryError"), conn))
           ELSE Finish(GetFailed(Written(st0, conn,
                                         PagePart(ret.val, r.val, syncLog)),
                                 conn))
    /\ ret' = NotCalled
    /\ UNCHANGED <<syncLog, procs, req, before, budget, call>>

HandlerStep ==
    \/ Validate \/ ClearSync \/ ClearServer \/ ClearRespond \/ RunSpawn \/ RunRespond
    \/ GetRoute \/ GetRead \/ GetPage

Next ==
    \/ \E r \in Requests : Arrive(r)
    \/ HandlerStep
    \/ \E l \in JobLines : JobAppend(l)
    \/ \E i \in 1..Len(procs) : ProcWrite(i)
    \/ \E i \in 1..Len(procs) : ProcExit(i)

Spec == Init /\ [][Next]_vars

-----------------------------------------------------------------------------
(* Claims *)

\* Whether a step of the call of safe_read_log fails: the size query, the
\* open, the read, the seek of the oversize branch, or the strict decoding of
\* the normal branch.
C1_StepFails ==
    /\ syncLog.exists
    /\ \/ call.fault \in {"getsize", "open", "read"}
       \/ call.fault = "seek" /\ FileSize(syncLog.content) > MAX_LOG_SIZE
       \/ /\ FileSize(syncLog.content) <= MAX_LOG_SIZE
          /\ HasInvalidBytes(syncLog.content)

\* C1: safe_read_log never lets an exception reach its caller.  For every
\* file (missing, oversize, normal) and a failure at any step it returns a
\* string; the string is 'Log file not found' when the path does not exist,
\* and 'Error reading log file: ' followed by the description of the
\* exception when a step fails.
C1_ReadNeverRaises ==
    (call.fn = "read" /\ ret # NotCalled) =>
        /\ ret.kind = "return"
        /\ ret.val.kind \in {"text", "error", "view"}
        /\ (~syncLog.exists => ret.val = NotFoundView)
        /\ (C1_StepFails =>
                /\ ret.val.kind = "error"
                /\ ret.val.text = "Error reading log file: "
                /\ ret.val.desc \in ExceptionClasses)

\* A call in which the decoding of the normal branch failed and the caller
\* got the error string.
C1_Witness ==
    /\ call.fn = "read"
    /\ ret # NotCalled
    /\ call.fault = "none"
    /\ C1_StepFails
    /\ ret = Return(ErrorView("UnicodeDecodeError"))

\* Whether the final safety check of the call of _generate_error_summary
\* fires: errors were found and the assembled summary is longer than 2000.
C2_CapFires ==
    /\ CollectErrors(call.lines, call.offset) # <<>>
    /\ TextLen(AssembledSummary(call.lines, call.offset, call.truncated)) > 2000

\* C2: the string _generate_error_summary returns has at most 2000
\* characters; when the size cap fires it is the first 1900 characters of
\* the assembled summary followed by the truncation notice, the separator
\* and the blank line.
C2_SummaryBounded ==
    (call.fn = "summary" /\ ret # NotCalled) =>
        /\ TextLen(ret.val) <= 2000
        /\ C2_CapFires =>
             LET n == Len(ret.val)
                 a == AssembledSummary(call.lines, call.offset, call.truncated)
             IN  /\ n >= 3
                 /\ SubSeq(ret.val, n - 2, n) = SummaryMessage
                 /\ SubSeq(ret.val, 1, n - 3) = Slice(a, 1900)
                 /\ TextLen(SubSeq(ret.val, 1, n - 3)) = 1900

\* A call in which the cap fired: 1900 characters and the 97 of the notice.
C2_Witness ==
    /\ call.fn = "summary"
    /\ ret # NotCalled
    /\ C2_CapFires
    /\ TextLen(ret.val) = 1997
    /\ ret.val[Len(ret.val) - 2].t = "notice"

\* A call of safe_read_log that takes the normal path without a failure on a
\* file of more lines than max_lines.
C3_Case ==
    /\ call.fn = "read"
    /\ ret # NotCalled
    /\ syncLog.exists
    /\ call.fault = "none"
    /\ FileSize(syncLog.content) <= MAX_LOG_SIZE
    /\ ~HasInvalidBytes(syncLog.content)
    /\ Len(syncLog.content) > call.max_lines

\* The number of lines of the entire file that contain an error keyword.
C3_ErrorLines ==
    Cardinality({i \in 1..Len(syncLog.content) : IsErrorLine(syncLog.content[i])})

\* The number of error lines among the displayed lines.
C3_ShownErrorLines ==
    Cardinality({i \in 1..Len(ret.val.body) : IsErrorLine(ret.val.body[i])})

\* The count the summary header of the returned view states; the no-errors
\* banner states none, which counts as 0.
C3_HeaderCount ==
    IF ret.val.summary[1].t = "hdr" THEN ret.val.summary[1].num ELSE 0

\* C3 as claimed: the count in the header is the number of error lines of
\* the entire file, whatever that number is.
C3_Original ==
    C3_Case =>
        /\ ret.kind = "return"
        /\ ret.val.kind = "view"
        /\ C3_HeaderCount = C3_ErrorLines

\* C3 as amended: in the normal path, for a file of more lines than
\* max_lines, the count in the header is the number of error lines of the
\* entire file, not of the displayed tail, up to 30; from 30 on it is 30.
C3_CountCapped ==
    C3_Case =>
        /\ ret.kind = "return"
        /\ ret.val.kind = "view"
        /\ ret.val.banner = "lines"
        /\ C3_HeaderCount = (IF C3_ErrorLines < 30 THEN C3_ErrorLines ELSE 30)
        /\ (ret.val.summary[1].t = "noerr") = (C3_ErrorLines = 0)

\* A file with 31 error lines, none of them in the displayed tail: the
\* header says 30.
C3_Witness ==
    /\ C3_Case
    /\ C3_ErrorLines = 31
    /\ C3_ShownErrorLines = 0
    /\ C3_HeaderCount = 30

\* Whether the phrase occurs in the line.
C4_Phrase(l, t) == Contains(TokChars(t), TokText(l))

\* The state a line's marker phrase stands for.
C4_MarkerOf(l) ==
    IF C4_Phrase(l, "All syncs completed successfully") THEN Completed
    ELSE IF C4_Phrase(l, "Some syncs failed. Check logs for details.")
         THEN CompletedWithErrors
    ELSE IF C4_Phrase(l, "Starting sync process.") THEN Running
    ELSE IF C4_Phrase(l, "Logs cleared via web interface") THEN NoRunYet
    ELSE NoMarker

\* The most recent of the lines that holds a marker decides; none: Running.
C4_Decide(lines) ==
    LET hits == {i \in 1..Len(lines) : C4_MarkerOf(lines[i]) # NoMarker}
    IN  IF hits = {} THEN Running
        ELSE C4_MarkerOf(lines[CHOOSE i \in hits : \A j \in hits : j <= i])

\* A call of get_sync_status on a non-empty sync log with no failure.
C4_Case ==
    /\ call.fn = "status"
    /\ ret # NotCalled
    /\ syncLog.exists
    /\ FileSize(syncLog.content) > 0
    /\ call.fault = "none"

\* The last 5 lines of the tail window.
C4_Lines == PyTail(StripSplit(DecodeLenient(StatusWindow(syncLog.content))), 5)

\* C4: for a non-empty readable sync log the status is that of the most
\* recent line, among the last 5 lines of the tail window, that contains a
\* marker phrase, and Running if none does; a success marker on the last
\* line gives Completed whatever precedes it.
C4_MostRecentMarkerDecides ==
    C4_Case =>
        /\ ret = Return(C4_Decide(C4_Lines))
        /\ (C4_Phrase(C4_Lines[Len(C4_Lines)], "All syncs completed successfully")
                => ret = Return(Completed))

\* The log ends with the success line, a Starting line is still among the
\* last 5 lines, and the status is Completed.
C4_Witness ==
    /\ C4_Case
    /\ syncLog.content[Len(syncLog.content)] = CompletedLine
    /\ \E i \in 1..Len(C4_Lines) : C4_MarkerOf(C4_Lines[i]) = Running
    /\ ret = Return(Completed)

\* The bytes the call reads.
C5_Window == StatusWindow(syncLog.content)

\* The non-empty lines of a window.
C5_NonEmpty(lines) == SelectSeq(lines, LAMBDA l : CharLen(l) > 0)

\* C5 as claimed: at most the last 1024 bytes are read and the status is
\* decided by the last 5 non-empty lines of that window.
C5_Original ==
    C4_Case =>
        /\ FileSize(C5_Window) <= 1024
        /\ ret = Return(C4_Decide(PyTail(C5_NonEmpty(DecodeLenient(C5_Window)), 5)))

\* The lines from the first to the last non-empty line of the window, the
\* empty ones between them included; of these the last 5.
C5_Scanned ==
    LET d     == DecodeLenient(C5_Window)
        full  == {i \in 1..Len(d) : CharLen(d[i]) > 0}
        first == CHOOSE i \in full : \A j \in full : i <= j
        last  == CHOOSE i \in full : \A j \in full : j <= i
    IN  IF full = {} THEN <<BlankLine>>
        ELSE SubSeq(d, IF last - 4 > first THEN last - 4 ELSE first, last)

\* C5 as amended: at most the last 1024 bytes are read, and the lines
\* scanned are the last 5 lines of that window after the empty lines at its
\* two ends are stripped: an empty line between two non-empty lines takes
\* one of the 5 positions.
C5_InnerBlankLinesCount ==
    C4_Case =>
        /\ FileSize(C5_Window) <= 1024
        /\ FileSize(C5_Window) <= FileSize(syncLog.content)
        /\ ret = Return(C4_Decide(C5_Scanned))

\* An empty line among the 5 scanned lines pushes the success line out: the
\* status is Running, the last 5 non-empty lines would give Completed.
C5_Witness ==
    /\ C4_Case
    /\ \E i \in 1..Len(C5_Scanned) : CharLen(C5_Scanned[i]) = 0
    /\ ret = Return(Running)
    /\ C4_Decide(PyTail(C5_NonEmpty(DecodeLenient(C5_Window)), 5)) = Completed


-----------------------------------------------------------------------------
(* Claims about do_POST *)

IsPrefix(a, b) == Len(a) <= Len(b) /\ SubSeq(b, 1, Len(a)) = a

\* The request being handled is one that passed the checks of the size and
\* of the body and was routed to `path`.
Dispatched(path) ==
    pc # "idle" /\ req.method = "POST" /\ req.path = path /\ ~Rejected(req)

\* No line was appended to the sync log from outside since the request came.
NoConcurrentWriter == budget.appends = before.appends

\* What the client receives of a complete answer.
Answer(code, headers, body) == <<HeadPart(code, headers), JsonPart(body)>>

C6_TooLong == req.clen.kind = "int" /\ req.clen.n > MaxRequestBytes

C6_BadJson ==
    /\ req.clen.kind = "int"
    /\ req.clen.n \in 1..MaxRequestBytes
    /\ req.json
    /\ req.body \in {"badjson", "badutf8"}

C6_Code == IF C6_TooLong THEN 413 ELSE 400

C6_Message ==
    IF C6_TooLong THEN "Request entity too large" ELSE "Invalid request data"

\* C6: a POST whose Content-Length exceeds 1024 is answered 413 and a POST
\* with a JSON content type and a body that is not valid JSON is answered
\* 400; either is rejected before the path is looked at: the handler never
\* reaches a step of /clear or /run, the sync log is as it was (but for
\* lines appended from outside), the server log keeps its lines and gains
\* only lines of the logger, and no process is started.
C6_RejectedBeforeDispatch ==
    (pc # "idle" /\ (C6_TooLong \/ C6_BadJson)) =>
        /\ pc \in {"validate", "done"}
        /\ Len(procs) = Len(before.procs)
        /\ NoConcurrentWriter => syncLog = before.syncLog
        /\ IsPrefix(before.syncLog.content, syncLog.content)
        /\ serverLog.exists = before.serverLog.exists
        /\ IsPrefix(before.serverLog.content, serverLog.content)
        /\ \A i \in 1..Len(serverLog.content) :
               i > Len(before.serverLog.content) =>
                   serverLog.content[i].src = "logger"
        /\ \A i \in 1..Len(resp) :
               resp[i].part = "head" => resp[i].code = C6_Code
        /\ (pc = "done" /\ req.conn = "open") =>
               resp = <<HeadPart(C6_Code, ErrorPageHeaders),
                        ErrorPage(C6_Code, C6_Message)>>

C6_Witness ==
    /\ pc = "done"
    /\ C6_BadJson
    /\ req.path = "/clear"
    /\ req.conn = "open"
    /\ before.syncLog.content # <<>>
    /\ before.serverLog.exists
    /\ syncLog = before.syncLog
    /\ Len(resp) = 2
    /\ resp[1].code = 400

C7_Case ==
    /\ pc = "done"
    /\ Dispatched("/clear")
    /\ before.syncLog.exists
    /\ NoConcurrentWriter

C7_Answered200 == \E i \in 1..Len(resp) : resp[i].part = "head" /\ resp[i].code = 200

\* C7: when POST /clear has been handled with no step failing, on a sync
\* log that existed and that nobody else wrote to meanwhile, the sync log
\* is exactly the line '[<timestamp>] [INFO] Logs cleared via web
\* interface', whatever it held before, and the client of an open
\* connection has received 200 with the JSON body {status: 'success'}; the
\* log is that one line whenever a 200 was sent.
C7_ClearLeavesMarker ==
    /\ (C7_Case /\ req.fault = "none") => syncLog = File(<<ClearedLine>>)
    /\ (C7_Case /\ req.fault = "none" /\ req.conn = "open") =>
           resp = Answer(200, SecureHeaders, SuccessBody)
    /\ (C7_Case /\ C7_Answered200) => syncLog = File(<<ClearedLine>>)

C7_Witness ==
    /\ C7_Case
    /\ req.fault = "none"
    /\ req.conn = "open"
    /\ Len(before.syncLog.content) > 1
    /\ syncLog = File(<<ClearedLine>>)
    /\ resp = Answer(200, SecureHeaders, SuccessBody)

C8_Case ==
    /\ pc = "done"
    /\ Dispatched("/clear")
    /\ req.fault = "none"
    /\ req.conn = "open"
    /\ before.serverLog.exists

\* C8 as stated: after a successful POST /clear the server log is exactly
\* the one marker line.
C8_Original == C8_Case => serverLog = File(<<ServerClearedLine>>)

\* C8: after a successful POST /clear the server log begins with the marker
\* line 'Server logs cleared via web interface', and after it come the lines
\* the handler logged for that request: the request line logged by
\* send_response and the message 'Logs cleared via web interface'.  Whenever
\* /clear got as far as sending 200, the log is the marker followed by
\* lines of the logger only.
C8_MarkerThenHandlerLines ==
    /\ C8_Case =>
           serverLog = File(<<ServerClearedLine,
                              LogRecord("INFO", "request", 200),
                              LogRecord("INFO", "Logs cleared via web interface", 0)>>)
    /\ (pc = "done" /\ Dispatched("/clear") /\ before.serverLog.exists
          /\ C7_Answered200) =>
           /\ Len(serverLog.content) > 1
           /\ serverLog.content[1] = ServerClearedLine
           /\ \A i \in 2..Len(serverLog.content) :
                  serverLog.content[i].src = "logger"

C8_Witness ==
    /\ C8_Case
    /\ Len(serverLog.content) = 3
    /\ serverLog.content[1] = ServerClearedLine
    /\ serverLog.content[3].msg = "Logs cleared via web interface"
    /\ resp = Answer(200, SecureHeaders, SuccessBody)

C9_Case ==
    /\ pc = "done"
    /\ Dispatched("/run")
    /\ req.fault \in {"spawn_oserror", "spawn_subprocess"}
    /\ NoConcurrentWriter

C9_Answer ==
    req.conn = "open" =>
        resp = Answer(500, SecureHeaders, ErrorBody("Failed to start sync process"))

\* C9 as stated: after a POST /run whose spawn raised OSError or a
\* subprocess error, the sync log exists or not as before and holds what it
\* held.
C9_Original == C9_Case => (C9_Answer /\ syncLog = before.syncLog)

\* C9: a POST /run whose spawn raises OSError or a subprocess error is
\* answered 500 with {status: 'error', message: 'Failed to start sync
\* process'}, starts no process and writes no byte to the sync log: a log
\* that existed holds what it held, and a log that did not exist has been
\* created empty by the open for appending that precedes the spawn.
C9_SpawnFailureWritesNothing ==
    C9_Case =>
        /\ C9_Answer
        /\ Len(procs) = Len(before.procs)
        /\ syncLog.exists
        /\ syncLog.content = before.syncLog.content

C9_Witness ==
    /\ C9_Case
    /\ req.conn = "open"
    /\ ~before.syncLog.exists
    /\ syncLog = File(<<>>)
    /\ Len(resp) = 2
    /\ resp[1].code = 500

C10_Case ==
    /\ pc \in {"run_respond", "done"}
    /\ Dispatched("/run")
    /\ req.fault = "none"

\* C10: a POST /run whose spawn succeeds starts exactly one process, whose
\* output is appended to the sync log; the content the log had stays at its
\* head; the answer on an open connection is 200 with {status: 'started',
\* pid: the pid of that process}; and the handler does not wait for the
\* process: whenever it is about to answer, Popen has returned and the
\* answering step can be taken, whether the process is alive or not.
C10_RunStartsOneDetachedProcess ==
    /\ C10_Case =>
           /\ Len(procs) = Len(before.procs) + 1
           /\ \A i \in 1..Len(before.procs) : procs[i].pid = before.procs[i].pid
           /\ \A i \in 1..Len(before.procs) : procs[i].pid # procs[Len(procs)].pid
           /\ syncLog.exists
           /\ IsPrefix(before.syncLog.content, syncLog.content)
    /\ (C10_Case /\ pc = "done" /\ req.conn = "open") =>
           resp = Answer(200, SecureHeaders, StartedBody(procs[Len(procs)].pid))
    /\ pc = "run_respond" => SpawnReturns(procs[Len(procs)])

C10_Witness ==
    /\ C10_Case
    /\ pc = "done"
    /\ req.conn = "open"
    /\ procs[Len(procs)].alive
    /\ Len(before.syncLog.content) > 1
    /\ Len(syncLog.content) > Len(before.syncLog.content)
    /\ resp = Answer(200, SecureHeaders, StartedBody(procs[Len(procs)].pid))

-----------------------------------------------------------------------------
(* Claims about the reader, the summary and the classifier, continued *)

\* A call of safe_read_log on an existing file has returned, no step failing.
ReadDone ==
    /\ call.fn = "read"
    /\ ret # NotCalled
    /\ syncLog.exists
    /\ call.fault = "none"

\* The offset in the file of the first byte of line i.
C12_Start(content, i) == FileSize(SubSeq(content, 1, i - 1))

\* What lies at or after offset off of the file: the lines with a byte (the
\* "\n" counts) at or after off, the first of them without its bytes before
\* off, decoded.
C12_From(content, off) ==
    LET n     == Len(content)
        seen  == {i \in 1..n :
                     C12_Start(content, i) + ByteLen(content[i]) + 1 > off}
        first == n + 1 - Cardinality(seen)
    IN  [j \in 1..Cardinality(seen) |->
            LET i    == first + j - 1
                miss == off - C12_Start(content, i)
            IN  DecodeIgnore(IF miss > 0 THEN CutFront(content[i], miss)
                             ELSE content[i])]

\* C12: for a file larger than MAX_LOG_SIZE the view is the error summary
\* of the last MAX_LOG_SIZE bytes (marked as of the displayed portion), the
\* banner naming MAX_LOG_SIZE bytes, and the lines that lie at or after
\* offset size - MAX_LOG_SIZE, nothing of what lies before it; a file of
\* exactly MAX_LOG_SIZE bytes, or fewer, gets no byte banner.
C12_OversizeShowsLastBytes ==
    ReadDone =>
        LET size == FileSize(syncLog.content)
            tail == C12_From(syncLog.content, size - MAX_LOG_SIZE)
        IN  IF size > MAX_LOG_SIZE
            THEN /\ ret = Return([kind |-> "view",
                                  summary |-> GenerateErrorSummary(tail, 0, TRUE),
                                  banner |-> "bytes", num |-> MAX_LOG_SIZE,
                                  body |-> JoinLines(tail)])
                 /\ FileSize(ret.val.body) <= MAX_LOG_SIZE
            ELSE ret.val.kind = "view" => ret.val.banner # "bytes"

\* An oversize file whose first line is an error line that lies before the
\* window: the view does not show it and its summary does not count it.
C12_Witness ==
    /\ ReadDone
    /\ FileSize(syncLog.content) > MAX_LOG_SIZE
    /\ ret.val.banner = "bytes"
    /\ IsErrorLine(syncLog.content[1])
    /\ ret.val.summary = NoErrorsSummary
    /\ Len(ret.val.body) < Len(syncLog.content)

\* Whether a summary begins with a header carrying '(in displayed portion)'.
C13_HasNote(summary) ==
    /\ summary # <<>>
    /\ summary[1].t = "hdr"
    /\ summary[1].whole
    /\ summary[1].flag

C13_Oversize == ReadDone /\ FileSize(syncLog.content) > MAX_LOG_SIZE

C13_Window == C12_From(syncLog.content, FileSize(syncLog.content) - MAX_LOG_SIZE)

\* C13 as stated: in the oversize path the summary carries the note for
\* every content of the window.
C13_Original == C13_Oversize => C13_HasNote(ret.val.summary)

\* C13: in the oversize path the summary header carries '(in displayed
\* portion)' exactly when a line of the byte window matches a keyword; when
\* none does, the summary is the fixed 'No errors found' banner, which has
\* no such note.  In the normal path the note never appears.
C13_NoteWhenErrorsFound ==
    /\ C13_Oversize =>
           IF \E i \in 1..Len(C13_Window) : IsErrorLine(C13_Window[i])
           THEN C13_HasNote(ret.val.summary)
           ELSE ret.val.summary = NoErrorsSummary
    /\ (ReadDone /\ ~C13_Oversize /\ ret.val.kind = "view") =>
           ~C13_HasNote(ret.val.summary)

C13_Witness ==
    /\ C13_Oversize
    /\ C13_HasNote(ret.val.summary)
    /\ ret.val.summary[1].num > 1

C14_Case ==
    /\ ReadDone
    /\ FileSize(syncLog.content) <= MAX_LOG_SIZE
    /\ HasInvalidBytes(syncLog.content)

\* C14: in the normal path a file holding bytes that are not valid UTF-8 is
\* decoded leniently: the view is the summary and the content of the file
\* with the malformed bytes dropped, not an 'Error reading log file' string.
C14_Original ==
    C14_Case =>
        /\ ret.val.kind = "view"
        /\ LET lines == DecodeLenient(syncLog.content)
           IN  ret.val.body = JoinLines(PyTail(lines,
                                  IF Len(lines) > call.max_lines
                                  THEN call.max_lines ELSE Len(lines) + 1))

C15_Case ==
    /\ ReadDone
    /\ FileSize(syncLog.content) <= MAX_LOG_SIZE
    /\ ~HasInvalidBytes(syncLog.content)
    /\ call.max_lines >= 0

\* The last m lines of a sequence, by position.
C15_LastLines(lines, m) ==
    [j \in 1..m |-> lines[Len(lines) - m + j]]

\* C15: in the normal path, for every maxLines >= 0 and every file of n
\* lines: if n > maxLines the view is the summary, the banner naming
\* maxLines lines and exactly the last maxLines lines of the file in file
\* order; if n <= maxLines it is the summary and all n lines, no banner.
C15_Original ==
    C15_Case =>
        LET lines == syncLog.content
            n     == Len(lines)
        IN  /\ ret.val.kind = "view"
            /\ ret.val.summary = GenerateErrorSummary(lines, 0, FALSE)
            /\ IF n > call.max_lines
               THEN /\ ret.val.banner = "lines"
                    /\ ret.val.num = call.max_lines
                    /\ ret.val.body =
                           JoinLines(C15_LastLines(lines, call.max_lines))
               ELSE /\ ret.val.banner = "none"
                    /\ ret.val.body = JoinLines(lines)

\* A call of _generate_error_summary has returned.
SummaryDone == call.fn = "summary" /\ ret # NotCalled

\* The positions of the matching lines, and the k-th of them.
C16_Matches(lines) == {i \in 1..Len(lines) : IsErrorLine(lines[i])}

C16_Nth(lines, k) ==
    CHOOSE i \in C16_Matches(lines) :
        Cardinality({j \in C16_Matches(lines) : j <= i}) = k

C16_Min(a, b) == IF a < b THEN a ELSE b

C16_IsEntry(p) == p.t = "entry" /\ p.whole

C16_IsMore(p) == p.t = "more" /\ p.whole

C16_IsNotice(p) == p.t = "notice"

\* The summary lists, in order, exactly the first m matching lines.
C16_Lists(text, lines, offset, m) ==
    LET entries == SelectSeq(text, C16_IsEntry)
    IN  /\ Len(entries) = m
        /\ \A k \in 1..m :
               /\ entries[k].num = C16_Nth(lines, k) + offset
               /\ entries[k].line = lines[C16_Nth(lines, k)]

\* C16 as stated: with more than 15 matching lines the summary lists exactly
\* the first 15 and a 'more errors' line with the number of matches less
\* 15; with 15 or fewer it lists every match and has no such line.
C16_Original ==
    SummaryDone =>
        LET k    == Cardinality(C16_Matches(call.lines))
            text == ret.val
        IN  IF k > max_errors_to_show
            THEN /\ C16_Lists(text, call.lines, call.offset, max_errors_to_show)
                 /\ Len(SelectSeq(text, C16_IsMore)) = 1
                 /\ SelectSeq(text, C16_IsMore)[1].num = k - max_errors_to_show
            ELSE /\ C16_Lists(text, call.lines, call.offset, k)
                 /\ SelectSeq(text, C16_IsMore) = <<>>

\* C16: let found be the number of matches collected, min(30, matches in
\* the input).  When the assembled summary has at most 2000 characters it
\* lists exactly the first min(15, found) matches in order, followed by a
\* 'more errors' line with N = found - 15 if found > 15 and by no such line
\* otherwise.  When it has more, the summary is cut: it ends with the
\* truncation notice, the entries left whole are the first matches in
\* order, fewer than min(15, found) of them, and no 'more errors' line.
C16_ListsFirstFifteen ==
    SummaryDone =>
        LET k      == Cardinality(C16_Matches(call.lines))
            found  == C16_Min(k, 2 * max_errors_to_show)
            shown  == C16_Min(found, max_errors_to_show)
            text   == ret.val
            left   == Len(SelectSeq(text, C16_IsEntry))
            more   == SelectSeq(text, C16_IsMore)
            cut    == SelectSeq(text, C16_IsNotice) # <<>>
        IN  /\ cut <=> (k > 0 /\ TextLen(AssembledSummary(
                            call.lines, call.offset, call.truncated))
                                  > max_summary_chars)
            /\ IF ~cut
               THEN /\ C16_Lists(text, call.lines, call.offset, shown)
                    /\ IF found > max_errors_to_show
                       THEN /\ Len(more) = 1
                            /\ more[1].num = found - max_errors_to_show
                       ELSE more = <<>>
               ELSE /\ left <= shown
                    /\ C16_Lists(text, call.lines, call.offset, left)
                    /\ left < shown
                    /\ more = <<>>

\* 31 short matching lines: 15 listed and 'and 15 more errors'.
C16_Witness ==
    /\ SummaryDone
    /\ Cardinality(C16_Matches(call.lines)) > 2 * max_errors_to_show
    /\ SelectSeq(ret.val, C16_IsNotice) = <<>>
    /\ Len(SelectSeq(ret.val, C16_IsEntry)) = max_errors_to_show
    /\ SelectSeq(ret.val, C16_IsMore)[1].num = max_errors_to_show

\* The text of a line, character by character.
C17_Text(l) ==
    [i \in 1..CharLen(l) |->
        IF i > l.pre /\ i <= l.pre + Len(TokText(l))
        THEN TokText(l)[i - l.pre]
        ELSE "#"]

\* A letter without its case.
C17_Fold(c) ==
    IF \E i \in 1..26 : UpperSeq[i] = c
    THEN LowerSeq[CHOOSE i \in 1..26 : UpperSeq[i] = c]
    ELSE c

C17_FoldAll(s) == [i \in 1..Len(s) |-> C17_Fold(s[i])]

C17_Keywords ==
    {"[ERROR]", "[CRITICAL]", "ERROR:", "CRITICAL:", "Failed", "Exception:",
     "Traceback", "Error:"}

\* The line contains one of the eight keywords, case disregarded.
C17_HasKeyword(l) ==
    \E k \in C17_Keywords :
        Contains(C17_FoldAll(TokChars(k)), C17_FoldAll(C17_Text(l)))

C18_Banner ==
    << [t |-> "noerr", n |-> 33, num |-> 0, line |-> BlankLine,
        flag |-> FALSE, whole |-> TRUE],
       [t |-> "sep", n |-> 51, num |-> 0, line |-> BlankLine,
        flag |-> FALSE, whole |-> TRUE],
       [t |-> "nl", n |-> 1, num |-> 0, line |-> BlankLine,
        flag |-> FALSE, whole |-> TRUE] >>

\* C18: when no line matches a keyword, the empty sequence of lines
\* included, the summary is exactly the 'No errors found' banner, a
\* separator line and a blank line, with no entry, whatever offset and
\* truncated are; with a matching line it is never that banner.
C18_NoErrorsBanner ==
    SummaryDone =>
        IF C16_Matches(call.lines) = {}
        THEN /\ ret.val = C18_Banner
             /\ SelectSeq(ret.val, C16_IsEntry) = <<>>
        ELSE ret.val # C18_Banner /\ ret.val[1].t # "noerr"

C18_Witness ==
    /\ SummaryDone
    /\ Len(call.lines) > max_errors_to_show
    /\ call.lines[1] = NearMissLine
    /\ call.truncated
    /\ call.offset > 0
    /\ ret.val = C18_Banner

StatusDone == call.fn = "status" /\ ret # NotCalled

\* A step of get_sync_status that is executed fails: the open or the seek
\* to the end of an existing file, or the read of a file that is not empty.
C19_StepFails ==
    /\ syncLog.exists
    /\ \/ call.fault \in {"open", "seek"}
       \/ call.fault = "read" /\ FileSize(syncLog.content) > 0

\* The state labels, each with its color.
C19_Pairs ==
    { [label |-> "Unknown", color |-> "#7d8590"],
      [label |-> "No logs", color |-> "#7d8590"],
      [label |-> "Completed", color |-> "#3fb950"],
      [label |-> "Completed with errors", color |-> "#d29922"],
      [label |-> "Running", color |-> "#79c0ff"],
      [label |-> "No run yet", color |-> "#7d8590"],
      [label |-> "Error", color |-> "#f85149"] }

\* C19: get_sync_status never raises; it returns (Unknown, '#7d8590') when
\* the sync log does not exist, (Error, '#f85149') when a step of reading
\* it fails and only then, (No logs, '#7d8590') when the log has zero bytes
\* and no step fails; every label comes with its one fixed color.
C19_StatusOfMissingEmptyUnreadable ==
    StatusDone =>
        /\ ret.kind = "return"
        /\ ret.val \in C19_Pairs
        /\ ~syncLog.exists => ret.val = [label |-> "Unknown", color |-> "#7d8590"]
        /\ C19_StepFails <=> ret.val = [label |-> "Error", color |-> "#f85149"]
        /\ (syncLog.exists /\ ~C19_StepFails /\ FileSize(syncLog.content) = 0)
               <=> ret.val = [label |-> "No logs", color |-> "#7d8590"]

C19_Witness ==
    /\ StatusDone
    /\ call.fault = "read"
    /\ syncLog.content # <<>>
    /\ ClassifyLine(syncLog.content[Len(syncLog.content)]) = Completed
    /\ ret = Return([label |-> "Error", color |-> "#f85149"])

C20_Twice == call.fn = "read_twice" /\ Len(ret.vals) = 2

-----------------------------------------------------------------------------
(* Claims about do_GET *)

\* A step that is neither the rewrite of the sync log by POST /clear nor an
\* append of the sync job or of a started script.
C11_OtherStep == budget'.appends = budget.appends /\ pc # "clear_sync"

\* The statement as the specification has it: such a step leaves the sync
\* log, its existence included, as it was.
C11_Original == [][C11_OtherStep => syncLog' = syncLog]_vars

\* C11: no step of a GET (/, /logs, /api/status, /favicon.ico, an unknown
\* path), of the reads safe_read_log and get_sync_status, of a rejected POST
\* or of POST /run changes the content of the sync log or removes it; the
\* one change such a step makes is that POST /run, opening the log for
\* appending, creates it empty when it is missing.
C11_OnlyRunCreatesLog ==
    [][C11_OtherStep =>
          /\ syncLog'.content = syncLog.content
          /\ syncLog.exists => syncLog'.exists
          /\ syncLog' # syncLog =>
                 /\ pc = "run_spawn"
                 /\ req.fault # "run_open"
                 /\ syncLog = NoFile
                 /\ syncLog' = File(<<>>)]_vars

\* GET / has read a sync log with lines in it and delivered the page, and
\* the log is as it was.
C11_Witness ==
    /\ pc = "done"
    /\ req.method = "GET"
    /\ req.path = "/"
    /\ req.conn = "open"
    /\ before.syncLog.content # <<>>
    /\ syncLog = before.syncLog
    /\ Len(resp) = 2
    /\ resp[2].type = "html"
    /\ resp[2].body.sync_log.kind = "view"
    /\ resp[2].body.sync_log.body = before.syncLog.content

-----------------------------------------------------------------------------
(* Claims about the containment of failures and the shape of the answers *)

\* A head with status `code` is among what the client received.
Answered(code) == \E i \in 1..Len(resp) : resp[i].part = "head" /\ resp[i].code = code

\* C21, as the specification has it: an exception raised while a GET or a
\* POST is handled is caught inside do_GET or do_POST and answered with a
\* 500; no exception leaves the handler.
C21_Original ==
    /\ pc # "escaped"
    /\ (pc = "done" /\ req.conn = "open" /\ req.fault = "get_page") => Answered(500)

\* The three security headers.
C22_Required ==
    {<<"X-Content-Type-Options", "nosniff">>,
     <<"X-Frame-Options", "DENY">>,
     <<"Cache-Control", "no-cache, no-store, must-revalidate">>}

\* C22, as the specification has it: every response sent to a POST request,
\* on any path and with any status, carries the three security headers.
C22_Original ==
    req.method = "POST" =>
        \A i \in 1..Len(resp) :
            resp[i].part = "head" => C22_Required \subseteq resp[i].headers

-----------------------------------------------------------------------------
(* Claims about the scan of _generate_error_summary *)

RECURSIVE C23_Positions(_, _)
\* The positions, from i on, of the lines that match, in ascending order.
C23_Positions(lines, i) ==
    IF i > Len(lines) THEN <<>>
    ELSE (IF IsErrorLine(lines[i]) THEN <<i>> ELSE <<>>)
         \o C23_Positions(lines, i + 1)

\* C23: _generate_error_summary scans the lines in order, numbering the i-th
\* line i + offset, and stops collecting at 30 matches: with k matching
\* lines in the input, the errors it holds are exactly the first min(30, k)
\* matching lines, each with its number, the numbers strictly ascending, and
\* the header of the summary states the count min(30, k) (with k = 0 there
\* is no header with a count, the summary being the banner of no errors).
C23_FirstThirtyInOrder ==
    SummaryDone =>
        LET errors == CollectErrors(call.lines, call.offset)
            pos    == C23_Positions(call.lines, 1)
            k      == Len(pos)
            m      == C16_Min(k, 2 * max_errors_to_show)
        IN  /\ Len(errors) = m
            /\ \A j \in 1..m :
                   /\ errors[j].num = pos[j] + call.offset
                   /\ errors[j].line = call.lines[pos[j]]
            /\ \A j \in 1..(m - 1) : errors[j].num < errors[j + 1].num
            /\ k > 0 => /\ ret.val[1].t = "hdr"
                        /\ ret.val[1].whole
                        /\ ret.val[1].num = m
            /\ k = 0 => \A i \in 1..Len(ret.val) : ret.val[i].t # "hdr"

\* More than 30 lines match, after a first line that does not, and the
\* numbering starts from an offset.
C23_Witness ==
    /\ SummaryDone
    /\ call.offset # 0
    /\ call.lines # <<>>
    /\ ~IsErrorLine(call.lines[1])
    /\ Len(C23_Positions(call.lines, 1)) > 2 * max_errors_to_show
    /\ ret.val[1].t = "hdr"
    /\ ret.val[1].num = 2 * max_errors_to_show

-----------------------------------------------------------------------------
(* safe_read_log and get_sync_status statement by statement, beside the    *)
(* sync job, a process of its own that appends to the sync log.            *)

\* The locals of the call: file_size, the position the seek left the file
\* at, the number of bytes the read returned, and the value returned.
Locals(file_size, pos, nread, val) ==
    [kind |-> "locals", file_size |-> file_size, pos |-> pos,
     nread |-> nread, val |-> val]

GrowLines == {PlainLine, WideLine}

GrowFiles ==
    {NoFile, File(<<>>), File(<<StartingLine, PlainLine>>),
     File(Rep(WideLine, 3)),
     File(<<Line(0, "", MAX_LOG_SIZE - 1)>>),
     File(<<PlainLine, Line(0, "", MAX_LOG_SIZE - 1)>>)}

InitGrow ==
    /\ syncLog \in GrowFiles
    /\ serverLog = NoFile
    /\ procs = <<>>
    /\ req = NoRequest
    /\ resp = <<>>
    /\ before = NoCall
    /\ budget = [requests |-> 0, appends |-> MaxAppends]
    /\ call \in {[fn |-> "safe_read_log", max_lines |-> DefaultMaxLines],
                 [fn |-> "get_sync_status", max_lines |-> 0]}
    /\ pc = "exists"
    /\ ret = Locals(0, 0, 0, NotCalled)

\* The call returns val.
Returns(val) ==
    /\ ret' = [ret EXCEPT !.val = val]
    /\ pc' = "done"

\* if not os.path.exists(...): return
StepExists ==
    /\ pc = "exists"
    /\ IF syncLog.exists
       THEN /\ pc' = IF call.fn = "safe_read_log" THEN "getsize" ELSE "tell"
            /\ ret' = ret
       ELSE Returns(IF call.fn = "safe_read_log" THEN Return(NotFoundView)
                    ELSE Return(Unknown))
    /\ UNCHANGED <<syncLog, serverLog, procs, req, resp, before, call, budget>>

\* safe_read_log: file_size = os.path.getsize(log_path) and the comparison
\* with MAX_LOG_SIZE
ReadGetSize ==
    /\ pc = "getsize"
    /\ ret' = [ret EXCEPT !.file_size = FileSize(syncLog.content)]
    /\ pc' = IF FileSize(syncLog.content) > MAX_LOG_SIZE THEN "seek" ELSE "readlines"
    /\ UNCHANGED <<syncLog, serverLog, procs, req, resp, before, call, budget>>

\* safe_read_log: open(log_path, 'rb'); f.seek(-MAX_LOG_SIZE, 2), which
\* raises OSError when the file is shorter than that
ReadSeek ==
    /\ pc = "seek"
    /\ LET size == FileSize(syncLog.content)
       IN  IF size < MAX_LOG_SIZE
           THEN Returns(IF ReadCatches("OSError") THEN Return(ErrorView("OSError"))
                        ELSE Raise("OSError"))
           ELSE /\ ret' = [ret EXCEPT !.pos = size - MAX_LOG_SIZE]
                /\ pc' = "read"
    /\ UNCHANGED <<syncLog, serverLog, procs, req, resp, before, call, budget>>

\* safe_read_log: f.read() up to the end of the file as it is now, and the
\* rest of the oversize branch
ReadRest ==
    /\ pc = "read"
    /\ LET nread == FileSize(syncLog.content) - ret.pos
           lines == DecodeLenient(LastBytes(syncLog.content, nread))
       IN  /\ ret' = [ret EXCEPT !.nread = nread,
                                 !.val = Return(View(
                                     GenerateErrorSummary(lines, 0, TRUE),
                                     "bytes", MAX_LOG_SIZE, lines))]
           /\ pc' = "done"
    /\ UNCHANGED <<syncLog, serverLog, procs, req, resp, before, call, budget>>

\* safe_read_log: open(log_path, 'r'); f.readlines() of the file as it is
\* now, and the rest of the normal branch
ReadLinesStep ==
    /\ pc = "readlines"
    /\ LET r == ReadNormal(syncLog, call.max_lines, "none")
       IN  /\ ret' = [ret EXCEPT !.nread = FileSize(syncLog.content),
                                 !.val = IF r.kind = "raise" /\ ReadCatches(r.exc)
                                         THEN Return(ErrorView(r.exc)) ELSE r]
           /\ pc' = "done"
    /\ UNCHANGED <<syncLog, serverLog, procs, req, resp, before, call, budget>>

\* get_sync_status: open, f.seek(0, 2), file_size = f.tell()
StatusTell ==
    /\ pc = "tell"
    /\ LET size == FileSize(syncLog.content)
       IN  IF size = 0 THEN Returns(Return(NoLogs))
           ELSE /\ ret' = [ret EXCEPT !.file_size = size]
                /\ pc' = "status_seek"
    /\ UNCHANGED <<syncLog, serverLog, procs, req, resp, before, call, budget>>

\* get_sync_status: read_size = min(1024, file_size);
\* f.seek(-read_size, 2), which raises OSError when the file is shorter
StatusSeek ==
    /\ pc = "status_seek"
    /\ LET size      == FileSize(syncLog.content)
           read_size == IF ret.file_size < StatusReadSize THEN ret.file_size
                        ELSE StatusReadSize
       IN  IF size < read_size
           THEN Returns(IF StatusCatches("OSError") THEN Return(StatusError)
                        ELSE Raise("OSError"))
           ELSE /\ ret' = [ret EXCEPT !.pos = size - read_size]
                /\ pc' = "status_read"
    /\ UNCHANGED <<syncLog, serverLog, procs, req, resp, before, call, budget>>

\* get_sync_status: f.read() up to the end of the file as it is now, and
\* the scan of the last lines
StatusRead ==
    /\ pc = "status_read"
    /\ LET nread == FileSize(syncLog.content) - ret.pos
       IN  /\ ret' = [ret EXCEPT !.nread = nread,
                                 !.val = Return(ScanReversed(LastLines(StripSplit(
                                     DecodeLenient(LastBytes(syncLog.content,
                                                             nread))))))]
           /\ pc' = "done"
    /\ UNCHANGED <<syncLog, serverLog, procs, req, resp, before, call, budget>>

\* The sync job appends a line while the call is under way.
GrowAppend(l) ==
    /\ budget.appends > 0
    /\ pc # "done"
    /\ syncLog' = File(Append(syncLog.content, l))
    /\ budget' = [budget EXCEPT !.appends = @ - 1]
    /\ UNCHANGED <<serverLog, procs, pc, req, resp, before, call, ret>>

NextGrow ==
    \/ StepExists \/ ReadGetSize \/ ReadSeek \/ ReadRest \/ ReadLinesStep
    \/ StatusTell \/ StatusSeek \/ StatusRead
    \/ \E l \in GrowLines : GrowAppend(l)

SpecGrow == InitGrow /\ [][NextGrow]_vars

\* C24, as the specification has it: whatever the sync job appends while a
\* call is under way, safe_read_log reads at most MAX_LOG_SIZE bytes of the
\* file and get_sync_status at most 1024.
C24_Original ==
    pc = "done" =>
        /\ call.fn = "safe_read_log" => ret.nread <= MAX_LOG_SIZE
        /\ call.fn = "get_sync_status" => ret.nread <= StatusReadSize

-----------------------------------------------------------------------------
(* A run of the sync job, and get_sync_status called in between *)

\* The logs a run starts on: none, an empty one, and those earlier runs and
\* a clear have left.
EarlierLogs ==
    {NoFile, File(<<>>), File(<<CompletedLine>>), File(<<ClearedLine>>),
     File(<<StartingLine, PlainLine, FailedLine>>)}

\* Lines without a marker phrase.
FollowLines == {PlainLine, BlankLine, WideLine, NearStartingLine}

InitHistory ==
    /\ syncLog \in EarlierLogs
    /\ serverLog = NoFile
    /\ procs = <<>>
    /\ pc = "idle"
    /\ req = NoRequest
    /\ resp = <<>>
    /\ before = NoCall
    /\ budget = [requests |-> 0, appends |-> MaxFollow]
    /\ call = [fn |-> "history", started |-> FALSE]
    /\ ret = NotCalled

\* The sync job writes the line of its start.
JobStarts ==
    /\ ~call.started
    /\ syncLog' = File(Append(syncLog.content, StartingLine))
    /\ call' = [call EXCEPT !.started = TRUE]
    /\ ret' = NotCalled
    /\ UNCHANGED <<serverLog, procs, pc, req, resp, before, budget>>

\* The running job writes a line.
JobLogs(l) ==
    /\ call.started
    /\ budget.appends > 0
    /\ syncLog' = File(Append(syncLog.content, l))
    /\ budget' = [budget EXCEPT !.appends = @ - 1]
    /\ ret' = NotCalled
    /\ UNCHANGED <<serverLog, procs, pc, req, resp, before, call>>

\* get_sync_status() on the log as it is.
StatusCall ==
    /\ ret = NotCalled
    /\ ret' = GetSyncStatus(syncLog, "none")
    /\ UNCHANGED <<syncLog, serverLog, procs, pc, req, resp, before, call, budget>>

NextHistory ==
    \/ JobStarts
    \/ \E l \in FollowLines : JobLogs(l)
    \/ StatusCall

SpecHistory == InitHistory /\ [][NextHistory]_vars

\* C25: once the sync job has appended the line 'Starting sync process.',
\* and as long as the lines appended after it have no marker phrase and the
\* log is not cleared, get_sync_status returns Running after each append:
\* however many lines follow, however long they are, and whatever markers of
\* earlier runs stand before the line.
C25_RunningAfterStart ==
    (call.started /\ ret # NotCalled) => ret = Return(Running)

\* The line of the start stands after a Completed marker and has left both
\* the window of 5 lines and the window of 1024 bytes.
C25_Witness ==
    /\ call.started
    /\ ret = Return(Running)
    /\ Len(syncLog.content) = 2 + MaxFollow
    /\ syncLog.content[1] = CompletedLine
    /\ syncLog.content[2] = StartingLine
    /\ FileSize(SubSeq(syncLog.content, 3, Len(syncLog.content))) > StatusReadSize

-----------------------------------------------------------------------------
(* Claims about what is read after POST /clear *)

\* POST /clear has been handled and answered 200, and nothing was appended
\* to the sync log since the request came.
C26_Cleared ==
    /\ pc = "done"
    /\ Dispatched("/clear")
    /\ Answered(200)
    /\ NoConcurrentWriter

\* C26: right after a POST /clear answered 200, with no write of the sync
\* job in between, on a sync log that existed get_sync_status returns
\* (No run yet, '#7d8590') and safe_read_log returns the summary of no
\* errors followed by the marker line alone, whatever the log held before;
\* a sync log that did not exist still does not, and the two return Unknown
\* and 'Log file not found'.
C26_AfterClear ==
    C26_Cleared =>
        LET status == GetSyncStatus(syncLog, "none")
            view   == SafeReadLog(syncLog, DefaultMaxLines, "none")
        IN  IF before.syncLog.exists
            THEN /\ status = Return([label |-> "No run yet", color |-> "#7d8590"])
                 /\ view = Return(View(NoErrorsSummary, "none", 0, <<ClearedLine>>))
            ELSE /\ syncLog = NoFile
                 /\ status = Return(Unknown)
                 /\ view = Return(NotFoundView)

C26_Witness ==
    /\ C26_Cleared
    /\ before.syncLog = File(<<StartingLine, ErrorLine>>)
    /\ syncLog = File(<<ClearedLine>>)
    /\ GetSyncStatus(syncLog, "none").val.label = "No run yet"

-----------------------------------------------------------------------------
(* Claims about the answer of one request *)

C28_IsHead(p) == p.part = "head"

\* C28, as the specification has it: for every GET or POST the handler
\* sends at most one status line with its headers; after a 200 no second
\* status goes out for the same request, also when a later step raises.
C28_Original == Len(SelectSeq(resp, C28_IsHead)) <= 1

\* C29, as the specification has it: POST /clear is all or nothing over the
\* two logs: when it ends with an error response neither log has been
\* truncated, and when it ends with 200 each of the two that existed starts
\* anew with its marker line.
C29_Original ==
    (pc = "done" /\ Dispatched("/clear") /\ NoConcurrentWriter) =>
        /\ (Answered(500) /\ ~Answered(200)) =>
               /\ syncLog = before.syncLog
               /\ IsPrefix(before.serverLog.content, serverLog.content)
        /\ Answered(200) =>
               /\ before.syncLog.exists => syncLog = File(<<ClearedLine>>)
               /\ before.serverLog.exists =>
                      /\ serverLog.content # <<>>
                      /\ serverLog.content[1] = ServerClearedLine

\* The client received a JSON body with this status.
C30_Body(status) ==
    \E i \in 1..Len(resp) :
        resp[i].part = "body" /\ resp[i].type = "json" /\ resp[i].body.status = status

\* C30, as the specification has it: when POST /run answers with a body
\* {status: 'error'} no process was started by the request, and every
\* process the handler starts is reported to the client by a body
\* {status: 'started', pid}, also when sending the answer fails after the
\* spawn.
C30_Original ==
    (pc = "done" /\ Dispatched("/run")) =>
        /\ C30_Body("error") => Len(procs) = Len(before.procs)
        /\ Len(procs) > Len(before.procs) =>
               \E i \in 1..Len(resp) :
                   resp[i] = JsonPart(StartedBody(procs[Len(procs)].pid))

=============================================================================
